---- MODULE Spec2Model ----
(***************************************************************************)
(* State-machine model of the Meshes events client (src/src/client.js,    *)
(* src/src/lib/helpers.js, src/src/lib/errors.js).                         *)
(*                                                                         *)
(* JavaScript values are tagged records.  A string is a sequence of atoms: *)
(* single characters where the code works character by character (header  *)
(* names: trim, toLowerCase) and whole lexemes elsewhere.  An object whose *)
(* keys are processed as text (headers, query) is a sequence of            *)
(* [name, value] entries in insertion order; an event object is a sequence *)
(* of [k, v] entries in insertion order.  An options object is a function  *)
(* from the keys that are present to their values.                         *)
(***************************************************************************)
EXTENDS Integers, Sequences, FiniteSets, TLC

VARIABLES
  client,   \* the constructed client's private fields, or NoClient
  ctor,     \* the last constructor call: its arguments and what it threw
  calls,    \* per call slot: the state of one emit / emitBatch call
  focus     \* which inputs the environment varies widely in this run

vars == <<client, ctor, calls, focus>>

\* the number of changes a caller makes to the objects it passed
MaxEdits == 2

(***************************************************************************)
(* Bounds of the model.                                                    *)
(***************************************************************************)
\* longest run of blanks put around a generated header name or value
MaxPad == 1

(***************************************************************************)
(* JavaScript values.                                                      *)
(***************************************************************************)
Undefined == [t |-> "undefined"]
Null == [t |-> "null"]
NaN == [t |-> "nan"]
BigInt == [t |-> "bigint"]
Num(n) == [t |-> "number", n |-> n]
Bool(b) == [t |-> "boolean", b |-> b]
Str(s) == [t |-> "string", s |-> s]
Obj(o) == [t |-> "object", o |-> o]
Arr(a) == [t |-> "array", a |-> a]
\* an object keyed by text (headers, query): entries [name, value]
Map(m) == [t |-> "map", m |-> m]

\* typeof v
TypeOf(v) ==
  CASE v.t = "undefined" -> "undefined"
    [] v.t \in {"number", "nan"} -> "number"
    [] v.t = "string" -> "string"
    [] v.t = "boolean" -> "boolean"
    [] v.t = "bigint" -> "bigint"
    [] OTHER -> "object"

\* ToBoolean(v): the values !v treats as false
Truthy(v) ==
  CASE v.t \in {"undefined", "null", "nan"} -> FALSE
    [] v.t = "number" -> v.n # 0
    [] v.t = "string" -> v.s # <<>>
    [] v.t = "boolean" -> v.b
    [] OTHER -> TRUE

\* o.key for an options object: undefined when the key is absent
Get(o, key) == IF key \in DOMAIN o THEN o[key] ELSE Undefined

\* { ...a, ...b }
Spread(a, b) ==
  [key \in DOMAIN a \cup DOMAIN b |-> IF key \in DOMAIN b THEN b[key] ELSE a[key]]

\* the empty object {}
EmptyOptions == [key \in {} |-> Undefined]

(***************************************************************************)
(* Strings.                                                                *)
(***************************************************************************)
IsBlank(c) == c \in {" ", "\t", "\n"}

RECURSIVE TrimStart(_)
TrimStart(s) ==
  IF s # <<>> /\ IsBlank(Head(s)) THEN TrimStart(Tail(s)) ELSE s

RECURSIVE TrimEnd(_)
TrimEnd(s) ==
  IF s # <<>> /\ IsBlank(s[Len(s)]) THEN TrimEnd(SubSeq(s, 1, Len(s) - 1)) ELSE s

\* variant: only the leading white space is removed
TrimLeadingOnly(s) == TrimStart(s)

\* String.prototype.trim
Trim(s) == TrimEnd(TrimStart(s))

UpperToLower ==
  [c \in {"A", "C", "E", "I", "K", "L", "M", "P", "T", "X", "Y", "B", "D", "H",
          "N", "S", "U"} |->
     CASE c = "A" -> "a" [] c = "C" -> "c" [] c = "E" -> "e" [] c = "I" -> "i"
       [] c = "K" -> "k" [] c = "L" -> "l" [] c = "M" -> "m" [] c = "P" -> "p"
       [] c = "T" -> "t" [] c = "X" -> "x" [] c = "Y" -> "y" [] c = "B" -> "b"
       [] c = "D" -> "d" [] c = "H" -> "h" [] c = "N" -> "n" [] c = "S" -> "s"
       [] c = "U" -> "u"]

\* String.prototype.toLowerCase
ToLowerCase(s) ==
  [i \in 1..Len(s) |-> IF s[i] \in DOMAIN UpperToLower THEN UpperToLower[s[i]] ELSE s[i]]

(***************************************************************************)
(* Text-keyed objects: Object.entries order, obj[k] = v, { ...a, ...b }.   *)
(***************************************************************************)
DigitChar == <<"0", "1", "2", "3", "4", "5", "6", "7", "8", "9">>

RECURSIVE Digits(_)
\* String(n) for a non-negative integer
Digits(n) ==
  IF n < 10 THEN <<DigitChar[n + 1]>> ELSE Digits(n \div 10) \o <<DigitChar[(n % 10) + 1]>>

MapHas(m, name) == \E i \in 1..Len(m) : m[i].name = name

MapGet(m, name) ==
  IF MapHas(m, name)
  THEN (m[CHOOSE i \in 1..Len(m) : m[i].name = name]).value
  ELSE Undefined

MapNames(m) == {m[i].name : i \in 1..Len(m)}

\* obj[name] = value
MapPut(m, name, value) ==
  IF MapHas(m, name)
  THEN [i \in 1..Len(m) |-> IF m[i].name = name THEN [name |-> name, value |-> value] ELSE m[i]]
  ELSE Append(m, [name |-> name, value |-> value])

RECURSIVE MapSpread(_, _)
\* { ...a, ...b } for text-keyed objects
MapSpread(a, b) ==
  IF b = <<>> THEN a ELSE MapSpread(MapPut(a, Head(b).name, Head(b).value), Tail(b))

\* Object.entries(v) of a text-keyed object or of an array
ObjectEntries(v) ==
  CASE v.t = "map" -> v.m
    [] v.t = "array" -> [i \in 1..Len(v.a) |-> [name |-> Digits(i - 1), value |-> v.a[i]]]
    [] OTHER -> <<>>

(***************************************************************************)
(* JSON.stringify and JSON.parse over atom sequences.                      *)
(***************************************************************************)
RECURSIVE EscapeString(_)
EscapeString(s) ==
  IF s = <<>> THEN <<>>
  ELSE (IF Head(s) \in {"\"", "\\"} THEN <<"\\", Head(s)>> ELSE <<Head(s)>>)
         \o EscapeString(Tail(s))

Quote(s) == <<"\"">> \o EscapeString(s) \o <<"\"">>

JsonThrow == [ok |-> FALSE, s |-> <<>>]
JsonText(s) == [ok |-> TRUE, s |-> s]

RECURSIVE JsonValue(_)
RECURSIVE JsonMembers(_, _)
RECURSIVE JsonElements(_, _, _)

\* the members of an object: entries whose value is undefined are skipped
JsonMembers(o, first) ==
  IF o = <<>> THEN JsonText(<<>>)
  ELSE IF Head(o).v.t = "undefined" THEN JsonMembers(Tail(o), first)
  ELSE LET val == JsonValue(Head(o).v)
           rest == JsonMembers(Tail(o), FALSE)
       IN IF ~val.ok \/ ~rest.ok THEN JsonThrow
          ELSE JsonText((IF first THEN <<>> ELSE <<",">>)
                          \o Quote(Head(o).k) \o <<":">> \o val.s \o rest.s)

\* the elements a[lo..hi] of an array, comma separated, the range halved at
\* each step: undefined elements become null
JsonElements(a, lo, hi) ==
  IF lo > hi THEN JsonText(<<>>)
  ELSE IF lo = hi THEN JsonValue(a[lo])
  ELSE LET mid == (lo + hi) \div 2
           left == JsonElements(a, lo, mid)
           right == JsonElements(a, mid + 1, hi)
       IN IF ~left.ok \/ ~right.ok THEN JsonThrow
          ELSE JsonText(left.s \o <<",">> \o right.s)

JsonValue(v) ==
  CASE v.t \in {"null", "nan", "undefined"} -> JsonText(<<"null">>)
    [] v.t = "boolean" -> JsonText(IF v.b THEN <<"true">> ELSE <<"false">>)
    [] v.t = "number" -> JsonText(Digits(v.n))
    [] v.t = "string" -> JsonText(Quote(v.s))
    [] v.t = "bigint" -> JsonThrow
    [] v.t = "object" ->
         LET ms == JsonMembers(v.o, TRUE)
         IN IF ms.ok THEN JsonText(<<"{">> \o ms.s \o <<"}">>) ELSE JsonThrow
    [] v.t = "array" ->
         LET es == JsonElements(v.a, 1, Len(v.a))
         IN IF es.ok THEN JsonText(<<"[">> \o es.s \o <<"]">>) ELSE JsonThrow
    [] OTHER -> JsonThrow

\* JSON.stringify(v): [ok |-> FALSE] when it throws (a BigInt inside v)
JSONStringify(v) == JsonValue(v)

ParseFail == [ok |-> FALSE, v |-> Undefined, rest |-> <<>>]
Parsed(v, rest) == [ok |-> TRUE, v |-> v, rest |-> rest]

DigitValue(c) == CHOOSE d \in 0..9 : DigitChar[d + 1] = c
IsDigit(c) == \E d \in 1..10 : DigitChar[d] = c

RECURSIVE ParseDigits(_, _)
ParseDigits(s, acc) ==
  IF s # <<>> /\ IsDigit(Head(s))
  THEN ParseDigits(Tail(s), 10 * acc + DigitValue(Head(s)))
  ELSE Parsed(Num(acc), s)

RECURSIVE ParseChars(_, _)
\* the characters of a string literal after its opening quote
ParseChars(s, acc) ==
  IF s = <<>> THEN ParseFail
  ELSE IF Head(s) = "\"" THEN Parsed(Str(acc), Tail(s))
  ELSE IF Head(s) = "\\"
       THEN IF Len(s) >= 2 /\ s[2] \in {"\"", "\\"}
            THEN ParseChars(Tail(Tail(s)), Append(acc, s[2]))
            ELSE ParseFail
  ELSE ParseChars(Tail(s), Append(acc, Head(s)))

\* obj[k] = v on an event-style object (a repeated key keeps its place)
ObjPut(o, k, v) ==
  IF \E i \in 1..Len(o) : o[i].k = k
  THEN [i \in 1..Len(o) |-> IF o[i].k = k THEN [k |-> k, v |-> v] ELSE o[i]]
  ELSE Append(o, [k |-> k, v |-> v])

RECURSIVE ParseValue(_)
RECURSIVE ParseMembers(_, _)
RECURSIVE ParseElements(_, _)

\* after "{" or ",": "key" : value, then "," or "}"
ParseMembers(s0, acc) ==
  LET s == TrimStart(s0)
  IN IF s = <<>> \/ Head(s) # "\"" THEN ParseFail
     ELSE LET key == ParseChars(Tail(s), <<>>)
              s1 == TrimStart(key.rest)
          IN IF ~key.ok \/ s1 = <<>> \/ Head(s1) # ":" THEN ParseFail
             ELSE LET val == ParseValue(Tail(s1))
                      s2 == TrimStart(val.rest)
                  IN IF ~val.ok \/ s2 = <<>> THEN ParseFail
                     ELSE IF Head(s2) = "}"
                          THEN Parsed(Obj(ObjPut(acc, key.v.s, val.v)), Tail(s2))
                     ELSE IF Head(s2) = ","
                          THEN ParseMembers(Tail(s2), ObjPut(acc, key.v.s, val.v))
                     ELSE ParseFail

\* after "[" or ",": value, then "," or "]"
ParseElements(s0, acc) ==
  LET val == ParseValue(s0)
      s1 == TrimStart(val.rest)
  IN IF ~val.ok \/ s1 = <<>> THEN ParseFail
     ELSE IF Head(s1) = "]" THEN Parsed(Arr(Append(acc, val.v)), Tail(s1))
     ELSE IF Head(s1) = "," THEN ParseElements(Tail(s1), Append(acc, val.v))
     ELSE ParseFail

ParseValue(s0) ==
  LET s == TrimStart(s0)
  IN IF s = <<>> THEN ParseFail
     ELSE CASE Head(s) = "null" -> Parsed(Null, Tail(s))
            [] Head(s) = "true" -> Parsed(Bool(TRUE), Tail(s))
            [] Head(s) = "false" -> Parsed(Bool(FALSE), Tail(s))
            [] IsDigit(Head(s)) ->
                 IF Head(s) = "0" /\ Len(s) >= 2 /\ IsDigit(s[2])
                 THEN ParseFail
                 ELSE ParseDigits(s, 0)
            [] Head(s) = "\"" -> ParseChars(Tail(s), <<>>)
            [] Head(s) = "{" ->
                 LET s1 == TrimStart(Tail(s))
                 IN IF s1 # <<>> /\ Head(s1) = "}"
                    THEN Parsed(Obj(<<>>), Tail(s1))
                    ELSE ParseMembers(s1, <<>>)
            [] Head(s) = "[" ->
                 LET s1 == TrimStart(Tail(s))
                 IN IF s1 # <<>> /\ Head(s1) = "]"
                    THEN Parsed(Arr(<<>>), Tail(s1))
                    ELSE ParseElements(s1, <<>>)
            [] OTHER -> ParseFail

\* JSON.parse(text): [ok |-> FALSE] when it throws a SyntaxError
JSONParse(text) ==
  LET r == ParseValue(text)
  IN IF r.ok /\ TrimStart(r.rest) = <<>> THEN [ok |-> TRUE, v |-> r.v]
     ELSE [ok |-> FALSE, v |-> Undefined]

(***************************************************************************)
(* MeshesApiError and the errors of the environment.                       *)
(***************************************************************************)
NoError == [name |-> "none"]

\* new MeshesApiError(message, data): data is set only when it is not
\* undefined.  The ${...} suffix of a templated message is left out.
MeshesApiError(message, data) ==
  IF data = Undefined
  THEN [name |-> "MeshesApiError", message |-> message]
  ELSE [name |-> "MeshesApiError", message |-> message, data |-> data]

\* an error of the environment: new Error(message), a TypeError, ...
RawError(name, message) == [name |-> name, message |-> message]

IsMeshesApiError(e) == e.name = "MeshesApiError"

(***************************************************************************)
(* Program constants.                                                      *)
(***************************************************************************)
MAX_TIMEOUT_MS == 30000
MIN_TIMEOUT_MS == 1000
DEFAULT_TIMEOUT_MS == 5000
MAX_BATCH == 100

lowerPublishableKey == <<"x", "-", "m", "e", "s", "h", "e", "s", "-", "p", "u", "b", "l", "i", "s", "h", "a", "b", "l", "e", "-", "k", "e", "y">>
lowerClient == <<"x", "-", "m", "e", "s", "h", "e", "s", "-", "c", "l", "i", "e", "n", "t">>
lowerContentType == <<"c", "o", "n", "t", "e", "n", "t", "-", "t", "y", "p", "e">>
lowerAccept == <<"a", "c", "c", "e", "p", "t">>

forbiddenHeaders == {lowerPublishableKey, lowerClient, lowerContentType, lowerAccept}

HdrPublishableKey == <<"X", "-", "M", "e", "s", "h", "e", "s", "-", "P", "u", "b", "l", "i", "s", "h", "a", "b", "l", "e", "-", "K", "e", "y">>
HdrClient == <<"X", "-", "M", "e", "s", "h", "e", "s", "-", "C", "l", "i", "e", "n", "t">>
HdrContentType == <<"C", "o", "n", "t", "e", "n", "t", "-", "T", "y", "p", "e">>
HdrAccept == <<"A", "c", "c", "e", "p", "t">>

ClientIdentity == Str(<<"Meshes Events Client v1.0.0">>)
ApplicationJson == Str(<<"application/json">>)

validMethods == {<<"P", "O", "S", "T">>}

defaultOptions ==
  [version |-> Str(<<"v1">>), timeout |-> Num(DEFAULT_TIMEOUT_MS), debug |-> Bool(FALSE)]

\* an options object as a JavaScript value
Opts(f) == [t |-> "options", f |-> f]

(***************************************************************************)
(* The publishable key pattern                                             *)
(*   /^mesh_pub_([A-Za-z0-9\-.]+)_([A-Za-z0-9\-.]+)_([^_]+)$/              *)
(* over a key written as the atom "mesh_pub_" followed by characters.      *)
(***************************************************************************)
KeyChars == {"a", "b", "c", "d", "e", "k", "s", "y", "A", "Z", "0", "1", "9", "-", "."}

RECURSIVE SplitOn(_, _, _)
\* s.split(sep), with cur the part being read
SplitOn(s, sep, cur) ==
  IF s = <<>> THEN <<cur>>
  ELSE IF Head(s) = sep THEN <<cur>> \o SplitOn(Tail(s), sep, <<>>)
  ELSE SplitOn(Tail(s), sep, Append(cur, Head(s)))

MESHES_PUBLISHABLE_KEY_REGEX(s) ==
  /\ s # <<>>
  /\ Head(s) = "mesh_pub_"
  /\ LET parts == SplitOn(Tail(s), "_", <<>>)
     IN /\ Len(parts) = 3
        /\ \A p \in 1..3 : parts[p] # <<>>
        /\ \A p \in 1..2 : \A i \in 1..Len(parts[p]) : parts[p][i] \in KeyChars

(***************************************************************************)
(* #cleanHeaders                                                           *)
(***************************************************************************)
RECURSIVE CleanEntries(_, _)
CleanEntries(es, clean) ==
  IF es = <<>> THEN clean
  ELSE LET key == Head(es).name
           value == Head(es).value
       IN IF TypeOf(value) # "string" THEN CleanEntries(Tail(es), clean)
          ELSE LET k == Trim(key)
                   v == Trim(value.s)
               IN IF k = <<>> \/ v = <<>> THEN CleanEntries(Tail(es), clean)
                  ELSE IF ToLowerCase(k) \in forbiddenHeaders
                       THEN CleanEntries(Tail(es), clean)
                  ELSE CleanEntries(Tail(es), MapPut(clean, k, Str(v)))

\* the entries of the cleaned header object
cleanHeaders(headers) ==
  IF ~Truthy(headers) \/ TypeOf(headers) # "object" THEN <<>>
  ELSE CleanEntries(ObjectEntries(headers), <<>>)

(***************************************************************************)
(* constructor(publishableKey, options = {})                               *)
(***************************************************************************)
NoClient == [constructed |-> FALSE]

Threw(e) == [ok |-> FALSE, err |-> e]

\* the header check of the constructor over Object.entries(options.headers):
\* the first offending entry decides
RECURSIVE CtorHeaderError(_, _)
CtorHeaderError(es, headers) ==
  IF es = <<>> THEN NoError
  ELSE IF TypeOf(Head(es).value) # "string"
       THEN MeshesApiError("Invalid request header value", headers)
  ELSE IF ToLowerCase(Head(es).name) \in forbiddenHeaders
       THEN MeshesApiError("Header not allowed", headers)
  ELSE CtorHeaderError(Tail(es), headers)

\* variant: only the upper end of the range is checked
TimeoutAboveMaximumOnly(timeout) == timeout.t = "number" /\ timeout.n > MAX_TIMEOUT_MS

\* the timeout check shared in shape by the constructor and #request
TimeoutOutOfRange(timeout) ==
  timeout.t = "number" /\ (timeout.n < MIN_TIMEOUT_MS \/ timeout.n > MAX_TIMEOUT_MS)

\* variant: the constructor checks the type of the timeout only
CtorTimeoutTypeOnly(timeout) ==
  IF TypeOf(timeout) \in {"undefined", "number"} THEN NoError
  ELSE MeshesApiError("Invalid request timeout", Undefined)

CtorTimeoutError(timeout) ==
  IF TypeOf(timeout) = "undefined" THEN NoError
  ELSE IF TypeOf(timeout) # "number"
       THEN MeshesApiError("Invalid request timeout", Undefined)
  ELSE IF TimeoutOutOfRange(timeout)
       THEN MeshesApiError("Unsupported request timeout", Undefined)
  ELSE NoError

CtorVersionError(version) ==
  IF TypeOf(version) # "string" THEN MeshesApiError("Invalid API version", Undefined)
  ELSE IF version.s # <<"v1">> THEN MeshesApiError("Unsupported API version", Undefined)
  ELSE NoError

CtorHeadersError(headers) ==
  IF TypeOf(headers) = "undefined" THEN NoError
  ELSE IF ~Truthy(headers) \/ TypeOf(headers) # "object" \/ headers.t = "array"
       THEN MeshesApiError("Invalid additional request headers", headers)
  ELSE CtorHeaderError(ObjectEntries(headers), headers)

DefaultBaseUrl(version) == <<"https://api.meshes.io/api/">> \o version.s

\* the private fields set by lines 124-135
NewClient(publishableKey, options) ==
  [constructed |-> TRUE,
   options |-> options,
   publishableKey |-> publishableKey,
   apiBaseUrl |->
     IF Get(options, "apiBaseUrl").t \in {"undefined", "null"}
     THEN Str(DefaultBaseUrl(options.version))
     ELSE Get(options, "apiBaseUrl"),
   apiHeaders |->
     MapSpread(cleanHeaders(Get(options, "headers")),
               << [name |-> HdrClient, value |-> ClientIdentity],
                  [name |-> HdrContentType, value |-> ApplicationJson],
                  [name |-> HdrAccept, value |-> ApplicationJson] >>),
   apiTimeout |-> Get(options, "timeout"),
   debug |-> Get(options, "debug") = Bool(TRUE)]

\* new MeshesEventsClient(publishableKey, optionsArg): the client, or what
\* the constructor threw
Constructor(publishableKey, optionsArg) ==
  LET given == IF optionsArg = Undefined THEN Opts(EmptyOptions) ELSE optionsArg
  IN IF TypeOf(publishableKey) # "string"
        \/ ~MESHES_PUBLISHABLE_KEY_REGEX(publishableKey.s)
     THEN Threw(MeshesApiError("Missing or invalid publishable key", Undefined))
     ELSE IF ~Truthy(given) \/ TypeOf(given) # "object"
     THEN Threw(MeshesApiError("Invalid options object", given))
     ELSE LET options == Spread(defaultOptions, given.f)
              e1 == CtorVersionError(Get(options, "version"))
              e2 == CtorTimeoutError(Get(options, "timeout"))
              e3 == CtorHeadersError(Get(options, "headers"))
          IN IF e1 # NoError THEN Threw(e1)
             ELSE IF e2 # NoError THEN Threw(e2)
             ELSE IF e3 # NoError THEN Threw(e3)
             ELSE [ok |-> TRUE, client |-> NewClient(publishableKey, options)]

(***************************************************************************)
(* #validateEvent                                                          *)
(***************************************************************************)
\* v[k] for an event-style object; undefined when v has no such property
Prop(v, k) ==
  IF v.t = "object" /\ \E i \in 1..Len(v.o) : v.o[i].k = k
  THEN (v.o[CHOOSE i \in 1..Len(v.o) : v.o[i].k = k]).v
  ELSE Undefined

\* variant: no event is refused
validateEventAccepts(event) == NoError

\* NoError, or the MeshesApiError that #validateEvent throws
validateEvent(event) ==
  IF ~Truthy(event) \/ TypeOf(event) # "object"
  THEN MeshesApiError("Invalid event: must be an object", event)
  ELSE IF TypeOf(Prop(event, <<"event">>)) # "string"
          \/ Trim(Prop(event, <<"event">>).s) = <<>>
  THEN MeshesApiError("Invalid event: missing 'event' string", event)
  ELSE IF ~Truthy(Prop(event, <<"payload">>))
          \/ TypeOf(Prop(event, <<"payload">>)) # "object"
  THEN MeshesApiError("Invalid event: missing 'payload' object", event)
  ELSE IF TypeOf(Prop(Prop(event, <<"payload">>), <<"email">>)) # "string"
          \/ Trim(Prop(Prop(event, <<"payload">>), <<"email">>).s) = <<>>
  THEN MeshesApiError("Invalid event: missing payload.email", event)
  ELSE NoError

(***************************************************************************)
(* #request: the synchronous part (lines 236-327, 369-373).                *)
(***************************************************************************)
\* String.prototype.toUpperCase
ToUpperCase(s) ==
  [i \in 1..Len(s) |->
     IF \E u \in DOMAIN UpperToLower : UpperToLower[u] = s[i]
     THEN CHOOSE u \in DOMAIN UpperToLower : UpperToLower[u] = s[i]
     ELSE s[i]]

\* application/x-www-form-urlencoded serialisation of one atom
FormEncoded ==
  [c \in {" ", "&", "=", "+", "?", "/", "%", "#"} |->
     CASE c = " " -> "+" [] c = "&" -> "%26" [] c = "=" -> "%3D" [] c = "+" -> "%2B"
       [] c = "?" -> "%3F" [] c = "/" -> "%2F" [] c = "%" -> "%25" [] c = "#" -> "%23"]

FormEncode(s) ==
  [i \in 1..Len(s) |-> IF s[i] \in DOMAIN FormEncoded THEN FormEncoded[s[i]] ELSE s[i]]

\* String(v) for the values a query mapping may hold
StringOf(v) ==
  CASE v.t = "string" -> v.s
    [] v.t = "number" -> Digits(v.n)
    [] v.t = "boolean" -> IF v.b THEN <<"true">> ELSE <<"false">>
    [] v.t = "null" -> <<"null">>
    [] v.t = "nan" -> <<"NaN">>
    [] OTHER -> <<"undefined">>

RECURSIVE JoinPairs(_, _)
JoinPairs(es, first) ==
  IF es = <<>> THEN <<>>
  ELSE (IF first THEN <<>> ELSE <<"&">>)
         \o FormEncode(Head(es).name) \o <<"=">> \o FormEncode(StringOf(Head(es).value))
         \o JoinPairs(Tail(es), FALSE)

\* new URLSearchParams(query).toString()
URLSearchParams(query) == JoinPairs(ObjectEntries(query), TRUE)

\* lines 252-295: NoError, or the MeshesApiError the executor throws
RequestValidationError(options) ==
  LET method == Get(options, "method")
      path == Get(options, "path")
      timeout == Get(options, "timeout")
      query == Get(options, "query")
  IN IF ~Truthy(method) \/ TypeOf(method) # "string"
     THEN MeshesApiError("Invalid request method", Opts(options))
     ELSE IF ToUpperCase(method.s) \notin validMethods
     THEN MeshesApiError("Unsupported request method", Opts(options))
     ELSE IF ~Truthy(path) \/ TypeOf(path) # "string"
             \/ Trim(path.s) = <<>> \/ Trim(path.s) = <<"/">>
     THEN MeshesApiError("Invalid request path", Opts(options))
     ELSE IF TypeOf(timeout) # "undefined" /\ TypeOf(timeout) # "number"
     THEN MeshesApiError("Invalid request timeout", Opts(options))
     ELSE IF TypeOf(timeout) # "undefined" /\ TimeoutOutOfRange(timeout)
     THEN MeshesApiError("Unsupported request timeout", Opts(options))
     ELSE IF TypeOf(query) # "undefined"
             /\ (~Truthy(query) \/ TypeOf(query) # "object" \/ query.t = "array")
     THEN MeshesApiError("Invalid request query params", Opts(options))
     ELSE NoError

\* variant: the timer always runs for the default timeout of the client
EffectiveTimeoutOfClient(c, options) == c.apiTimeout

\* line 242-243
EffectiveTimeout(c, options) ==
  IF TypeOf(Get(options, "timeout")) = "number" THEN Get(options, "timeout")
  ELSE c.apiTimeout

\* lines 298-300
QueryString(options) ==
  IF Truthy(Get(options, "query"))
  THEN <<"?">> \o URLSearchParams(Get(options, "query"))
  ELSE <<>>

\* variant: the per-call headers are spread without #cleanHeaders
RequestHeadersUncleaned(c, options) ==
  MapPut(MapSpread(ObjectEntries(Get(options, "headers")), c.apiHeaders),
         HdrPublishableKey, c.publishableKey)

\* lines 304-307 and #includeApiPublishableKey
RequestHeaders(c, options) ==
  MapPut(MapSpread(cleanHeaders(Get(options, "headers")), c.apiHeaders),
         HdrPublishableKey, c.publishableKey)

\* variant: a body that is not a string is converted with String()
RequestBodyString(options) ==
  LET body == Get(options, "body")
  IN IF ~Truthy(body) THEN [ok |-> TRUE, body |-> Null]
     ELSE IF TypeOf(body) = "string" THEN [ok |-> TRUE, body |-> body]
     ELSE [ok |-> TRUE, body |-> Str(<<"[object Object]">>)]

\* lines 308-312: the body text, or that JSON.stringify threw
RequestBody(options) ==
  LET body == Get(options, "body")
  IN IF ~Truthy(body) THEN [ok |-> TRUE, body |-> Null]
     ELSE IF TypeOf(body) = "string" THEN [ok |-> TRUE, body |-> body]
     ELSE LET j == JSONStringify(body)
          IN IF j.ok THEN [ok |-> TRUE, body |-> Str(j.s)]
             ELSE [ok |-> FALSE, body |-> Null]

\* lines 316-317
RequestPath(options) ==
  LET path == Get(options, "path").s
  IN IF path = <<>> \/ Head(path) # "/" THEN <<"/">> \o path ELSE path

NoRequest == [sent |-> FALSE]

\* variant: a signal is passed whether or not a controller exists
FetchArgumentsSignalled(c, options, hasController) ==
  [sent |-> TRUE,
   url |-> c.apiBaseUrl.s \o RequestPath(options) \o QueryString(options),
   method |-> Str(ToUpperCase(Get(options, "method").s)),
   headers |-> RequestHeaders(c, options),
   body |-> RequestBody(options).body,
   signal |-> TRUE]

\* the arguments of fetch(url, requestOptions), lines 302-327
FetchArguments(c, options, hasController) ==
  [sent |-> TRUE,
   url |-> c.apiBaseUrl.s \o RequestPath(options) \o QueryString(options),
   method |-> Str(ToUpperCase(Get(options, "method").s)),
   headers |-> RequestHeaders(c, options),
   body |-> RequestBody(options).body,
   signal |-> hasController]

(***************************************************************************)
(* The state of one call.                                                  *)
(***************************************************************************)
Pending == [state |-> "pending"]
Fulfilled(v) == [state |-> "fulfilled", value |-> v]
Rejected(e) == [state |-> "rejected", value |-> e]

NoResponse == [received |-> FALSE]

IdleCall ==
  [op |-> "none",            \* "emit" or "emitBatch"
   arg |-> Undefined,        \* the event / events argument
   opts |-> EmptyOptions,    \* the per-call options argument
   merged |-> EmptyOptions,  \* the options handed to #request
   done |-> "none",          \* the callback: "none", "returns" or "throws"
   thrown |-> NoError,       \* what the call threw synchronously
   returned |-> "none",      \* "promise" or "undefined" once it returned
   hasController |-> FALSE,  \* an AbortController was created
   honours |-> FALSE,        \* the transport rejects when its signal aborts
   timer |-> "none",         \* "armed", "fired" or "cleared"
   timerMs |-> Undefined,    \* the delay given to setTimeout
   aborted |-> FALSE,        \* controller.signal.aborted
   fetchCalls |-> 0,         \* how often the transport was called
   request |-> NoRequest,    \* what the transport was called with
   transport |-> "none",     \* "pending", "fulfilled" or "rejected"
   response |-> NoResponse,  \* the response the transport fulfilled with
   read |-> "none",          \* response.text(): "pending", "ok" or "failed"
   text |-> <<>>,            \* the text that was read
   readErr |-> NoError,      \* what response.text() rejected with
   transportErr |-> NoError, \* what the transport threw or rejected with
   inner |-> Pending,        \* the promise of line 251
   stage |-> "idle",         \* next reaction: "wait", "then", "catch",
                             \* "finally", "done"; "threw" after a throw
   chain |-> Pending,        \* the settled value passing down the chain
   cbCalls |-> <<>>,         \* the invocations of the callback, in order
   promise |-> Pending]      \* requestPromise

\* the reaction that follows the settling of the inner promise
StageAfter(inner) == IF inner.state = "fulfilled" THEN "then" ELSE "catch"

SettleInner(call, outcome) ==
  [call EXCEPT !.inner = outcome, !.stage = StageAfter(outcome), !.chain = outcome]

FetchFailed == RawError("TypeError", "fetch failed")

\* #request(options, done) up to its return, for a transport whose call
\* either throws synchronously (fetchThrows) or returns a pending promise
Request(c, call, options, hasAbortController, fetchThrows, honours) ==
  LET started ==
        [call EXCEPT
           !.merged = options,
           !.hasController = hasAbortController,
           !.timer = IF hasAbortController THEN "armed" ELSE "none",
           !.timerMs = IF hasAbortController THEN EffectiveTimeout(c, options)
                       ELSE Undefined,
           !.returned = IF call.done = "none" THEN "promise" ELSE "undefined"]
      invalid == RequestValidationError(options)
  IN IF invalid # NoError THEN SettleInner(started, Rejected(invalid))
     ELSE IF ~RequestBody(options).ok
     THEN SettleInner(started,
            Rejected(MeshesApiError("Unexpected Error",
                       RawError("TypeError", "Do not know how to serialize a BigInt"))))
     ELSE LET called ==
                [started EXCEPT
                   !.fetchCalls = @ + 1,
                   !.request = FetchArguments(c, options, hasAbortController),
                   !.honours = honours]
          IN IF fetchThrows
             THEN SettleInner([called EXCEPT !.transportErr = FetchFailed],
                    Rejected(MeshesApiError("Unexpected Error", FetchFailed)))
             ELSE [called EXCEPT !.transport = "pending", !.stage = "wait"]

(***************************************************************************)
(* emit and emitBatch up to their return.                                  *)
(***************************************************************************)
NewCall(op, arg, opts, done) ==
  [IdleCall EXCEPT !.op = op, !.arg = arg, !.opts = opts, !.done = done]

ThrewSync(call, e) == [call EXCEPT !.thrown = e, !.stage = "threw"]

\* variant: the per-call options are spread last
MergedOptionsCallerLast(c, opts, path, body) ==
  Spread(Spread(c.options,
                [path |-> Str(path), method |-> Str(<<"P", "O", "S", "T">>), body |-> body]),
         opts)

\* lines 419-425 / 457-463
MergedOptions(c, opts, path, body) ==
  Spread(Spread(c.options, opts),
         [path |-> Str(path), method |-> Str(<<"P", "O", "S", "T">>), body |-> body])

emit(c, event, opts, done, hasAbortController, fetchThrows, honours) ==
  LET call == NewCall("emit", event, opts, done)
      invalid == validateEvent(event)
  IN IF invalid # NoError THEN ThrewSync(call, invalid)
     ELSE Request(c, call, MergedOptions(c, opts, <<"/", "events">>, event),
                  hasAbortController, fetchThrows, honours)

\* lines 453-455: the error of the first invalid element
FirstInvalid(events) ==
  LET bad == {i \in 1..Len(events) : validateEvent(events[i]) # NoError}
  IN IF bad = {} THEN NoError
     ELSE validateEvent(events[CHOOSE i \in bad : \A j \in bad : i <= j])

\* variant: no check of the number of events
emitBatchUnbounded(c, events, opts, done, hasAbortController, fetchThrows, honours) ==
  LET call == NewCall("emitBatch", events, opts, done)
  IN IF events.t # "array"
     THEN ThrewSync(call, MeshesApiError("Events must be an array", events))
     ELSE IF FirstInvalid(events.a) # NoError
     THEN ThrewSync(call, FirstInvalid(events.a))
     ELSE Request(c, call,
                  MergedOptions(c, opts, <<"/", "events", "/", "bulk">>, events),
                  hasAbortController, fetchThrows, honours)

emitBatch(c, events, opts, done, hasAbortController, fetchThrows, honours) ==
  LET call == NewCall("emitBatch", events, opts, done)
  IN IF events.t # "array"
     THEN ThrewSync(call, MeshesApiError("Events must be an array", events))
     ELSE IF Len(events.a) = 0
     THEN ThrewSync(call, MeshesApiError("Events array cannot be empty", Undefined))
     ELSE IF Len(events.a) > MAX_BATCH
     THEN ThrewSync(call, MeshesApiError("Bulk emit supports up to 100 events per request",
                                         Obj(<<[k |-> <<"count">>, v |-> Num(Len(events.a))]>>)))
     ELSE IF FirstInvalid(events.a) # NoError
     THEN ThrewSync(call, FirstInvalid(events.a))
     ELSE Request(c, call,
                  MergedOptions(c, opts, <<"/", "events", "/", "bulk">>, events),
                  hasAbortController, fetchThrows, honours)

(***************************************************************************)
(* readBody (src/src/lib/helpers.js) on a text that was read.              *)
(***************************************************************************)
\* variant: the text is returned as read
readBodyText(text) == Str(text)

readBody(text) ==
  IF text = <<>> THEN Null
  ELSE IF JSONParse(text).ok THEN JSONParse(text).v
  ELSE Str(text)

(***************************************************************************)
(* #request: the reactions (lines 328-399).                                *)
(***************************************************************************)
\* variant: the body is resolved whatever response.ok says
AfterReadResolves(response, text) == Fulfilled(readBody(text))

\* lines 329-363, once response.text() has produced text
AfterRead(response, text) ==
  IF response.ok
  THEN Fulfilled(readBody(text))
  ELSE Rejected(MeshesApiError("Meshes API request failed",
         [status |-> response.status, statusText |-> response.statusText,
          data |-> readBody(text)]))

\* variant: a body that cannot be read counts as an empty body
AfterReadFailureAsEmpty(response, err) ==
  IF response.ok
  THEN Fulfilled(Null)
  ELSE Rejected(MeshesApiError("Meshes API request failed",
         [status |-> response.status, statusText |-> response.statusText,
          data |-> Null]))

\* lines 335-340 and 353-362, once response.text() has failed with err
AfterReadFailure(response, err) ==
  IF response.ok
  THEN Rejected(MeshesApiError("Error parsing response data", err))
  ELSE Rejected(MeshesApiError("Error parsing request failure",
         [status |-> response.status, statusText |-> response.statusText,
          error |-> err]))

\* lines 365-368
AfterTransportFailure(err) == Rejected(MeshesApiError("Request Failure", err))

\* lines 375-384: the success reaction
ThenReaction(call) ==
  IF call.done = "none" THEN [call EXCEPT !.stage = "finally"]
  ELSE LET invoked ==
             [call EXCEPT !.cbCalls = Append(@, [err |-> Null, data |-> call.chain.value])]
       IN IF call.done = "throws"
          THEN [invoked EXCEPT !.chain = Rejected(RawError("Error", "callback threw")),
                               !.stage = "catch"]
          ELSE [invoked EXCEPT !.stage = "finally"]

\* variant: the failure reaction never calls done
CatchReactionSilent(call) == [call EXCEPT !.stage = "finally"]

\* lines 385-394: the failure reaction
CatchReaction(call) ==
  IF call.done = "none" THEN [call EXCEPT !.stage = "finally"]
  ELSE LET invoked ==
             [call EXCEPT !.cbCalls = Append(@, [err |-> call.chain.value, data |-> Undefined])]
       IN IF call.done = "throws"
          THEN [invoked EXCEPT !.chain = Rejected(RawError("Error", "callback threw")),
                               !.stage = "finally"]
          ELSE [invoked EXCEPT !.stage = "finally"]

\* variant: the last reaction leaves the timer alone
FinallyReactionKeepsTimer(call) ==
  [call EXCEPT !.promise = call.chain, !.stage = "done"]

\* lines 395-399
FinallyReaction(call) ==
  [call EXCEPT !.timer = IF @ = "armed" THEN "cleared" ELSE @,
               !.promise = call.chain,
               !.stage = "done"]

(***************************************************************************)
(* The inputs of the environment.  A run varies one group of inputs widely *)
(* (focus) and draws the others from the narrow sets.                      *)
(***************************************************************************)
RECURSIVE Blanks(_)
Blanks(n) == IF n = 0 THEN <<>> ELSE <<" ">> \o Blanks(n - 1)

Pad(n, s) == Blanks(n) \o s \o Blanks(n)

Pads == 0..MaxPad

Entry(name, value) == [name |-> name, value |-> value]

NameRequestId == <<"X", "-", "I", "d">>
NameIdem == <<"I", "d", "e", "m">>
NameAcceptUpper == <<"A", "C", "C", "E", "P", "T">>
NameClientMixed == <<"x", "-", "M", "e", "s", "h", "e", "s", "-", "c", "l", "i", "e", "n", "t">>

ValidKey == Str(<<"mesh_pub_", "a", ".", "b", "_", "c", "-", "d", "_", "s", "1">>)

KeyInputs ==
  IF focus = "construct"
  THEN {ValidKey,
        Str(<<"b", "a", "d", "_", "k", "e", "y">>),
        Str(<<"mesh_pub_", "a", "_", "b">>),
        Str(<<"mesh_pub_", "a", "!", "_", "b", "_", "c">>),
        Str(<<"mesh_pub_", "a", "_", "b", "_", "c", "_", "d">>),
        Num(1), Undefined}
  ELSE {ValidKey}

TimeoutInputs ==
  {Undefined, Null, Str(<<"nope">>), NaN, Num(0),
   Num(MIN_TIMEOUT_MS - 1), Num(MIN_TIMEOUT_MS), Num(MIN_TIMEOUT_MS + 1),
   Num(15000),
   Num(MAX_TIMEOUT_MS - 1), Num(MAX_TIMEOUT_MS), Num(MAX_TIMEOUT_MS + 1)}

CtorHeaderInputs ==
  {Null, Arr(<<Str(<<"x">>)>>), Str(<<"x">>),
   Map(<<Entry(NameRequestId, Num(123))>>),
   Map(<<Entry(HdrContentType, Str(<<"x">>))>>),
   Map(<<Entry(NameAcceptUpper, Str(<<"x">>))>>),
   Map(<<Entry(NameClientMixed, Str(<<"evil">>))>>),
   Map(<<Entry(<<>>, Str(<<"x">>)), Entry(<<"X", "-", "E">>, Str(<<" ">>))>>)}
  \cup {Map(<<Entry(Pad(n, NameRequestId), Str(Pad(n, <<"r1">>)))>>) : n \in Pads}
  \cup {Map(<<Entry(Pad(n, HdrAccept), Str(<<"text/plain">>))>>) : n \in Pads}
  \cup {Map(<<Entry(Pad(n, lowerPublishableKey), Str(<<"evil">>)),
              Entry(NameIdem, Str(<<"i0">>))>>) : n \in Pads}

OverrideUrl == Str(<<"https://example.test/api/v1">>)

NarrowCtorOptions ==
  {Undefined,
   Opts([headers |-> Map(<<Entry(NameRequestId, Str(<<"r1">>))>>),
         timeout |-> Num(MIN_TIMEOUT_MS)])}

CtorOptionInputs ==
  IF focus = "construct"
  THEN NarrowCtorOptions
       \cup {Null, Str(<<"x">>), Opts(EmptyOptions)}
       \cup {Opts([timeout |-> t]) : t \in TimeoutInputs}
       \cup {Opts([headers |-> h]) : h \in CtorHeaderInputs}
       \cup {Opts([debug |-> d]) : d \in {Bool(TRUE), Str(<<"yes">>)}}
       \cup {Opts([apiBaseUrl |-> u]) : u \in {OverrideUrl, Null}}
       \cup {Opts([version |-> v]) : v \in {Str(<<"v1">>), Str(<<"v2">>), Num(1), Undefined}}
  ELSE IF focus \in {"pair", "twin"} THEN {Undefined}
  ELSE IF focus = "mutate"
  THEN NarrowCtorOptions
       \cup {Opts([timeout |-> Num(2000)]),
             Opts([headers |-> Map(<<Entry(NameIdem, Str(<<"i0">>))>>),
                   apiBaseUrl |-> OverrideUrl])}
  ELSE NarrowCtorOptions

Field(k, v) == [k |-> k, v |-> v]

EventWith(name, payload) ==
  Obj(<<Field(<<"event">>, name), Field(<<"payload">>, payload)>>)

ValidEvent == EventWith(Str(<<"x">>), Obj(<<Field(<<"email">>, Str(<<"a@b.com">>))>>))

RichEvent ==
  Obj(<<Field(<<"event">>, Str(<<"user.signed_up">>)),
        Field(<<"resource">>, Str(<<"user">>)),
        Field(<<"payload">>, Obj(<<Field(<<"email">>, Str(<<" ", "a@b.com">>)),
                                   Field(<<"name">>, Str(<<"T", "\"", "s">>)),
                                   Field(<<"age">>, Num(42)),
                                   Field(<<"nick">>, Undefined)>>)),
        Field(<<"extra">>, Arr(<<Bool(TRUE), Null>>))>>)

\* valid for #validateEvent, but JSON.stringify throws on it
BigIntEvent ==
  EventWith(Str(<<"x">>),
            Obj(<<Field(<<"email">>, Str(<<"a@b.com">>)), Field(<<"n">>, BigInt)>>))

InvalidEvents ==
  {Null, Undefined, Str(<<"x">>), Num(1), Arr(<<>>),
   Obj(<<Field(<<"payload">>, Obj(<<Field(<<"email">>, Str(<<"a@b.com">>))>>))>>),
   EventWith(Str(<<" ", " ">>), Obj(<<Field(<<"email">>, Str(<<"a@b.com">>))>>)),
   EventWith(Num(7), Obj(<<Field(<<"email">>, Str(<<"a@b.com">>))>>)),
   EventWith(Str(<<"x">>), Null),
   EventWith(Str(<<"x">>), Str(<<"p">>)),
   EventWith(Str(<<"x">>), Obj(<<>>)),
   EventWith(Str(<<"x">>), Obj(<<Field(<<"email">>, Str(<<" ", "\t">>))>>)),
   EventWith(Str(<<"x">>), Obj(<<Field(<<"email">>, Num(1))>>))}

BadEvent == EventWith(Str(<<"x">>), Obj(<<>>))

\* an array of n events, valid but for the one at position bad (0: none)
Batch(n, bad) == Arr([i \in 1..n |-> IF i = bad THEN BadEvent ELSE ValidEvent])

BatchInputs ==
  {Batch(n, 0) : n \in {0, 1, 2, MAX_BATCH - 1, MAX_BATCH, MAX_BATCH + 1}}
  \cup {Batch(2, 1), Batch(2, 2), Batch(MAX_BATCH, MAX_BATCH), Batch(MAX_BATCH + 1, 1)}
  \cup {Str(<<"nope">>), Undefined, ValidEvent}

CallHeaderInputs ==
  {Null, Arr(<<Str(<<"x">>)>>),
   Map(<<Entry(NameIdem, Str(<<"i1">>))>>),
   Map(<<Entry(HdrContentType, Str(<<"text/plain">>)),
         Entry(Pad(1, NameRequestId), Str(Pad(1, <<"r9">>)))>>),
   Map(<<Entry(HdrClient, Str(<<"evil">>)),
         Entry(HdrPublishableKey, Str(<<"evil">>)),
         Entry(HdrAccept, Str(<<"text/plain">>)),
         Entry(NameRequestId, Str(<<"r1">>))>>),
   Map(<<Entry(<<"X", "-", "N">>, Num(123)), Entry(NameRequestId, Str(<<"ok">>))>>),
   Map(<<Entry(NameClientMixed, Str(<<"evil">>))>>)}
  \cup {Map(<<Entry(Pad(n, NameRequestId), Str(Pad(n, <<"r2">>)))>>) : n \in Pads}
  \cup {Map(<<Entry(Pad(n, NameAcceptUpper), Str(<<"text/plain">>))>>) : n \in Pads}
  \cup {Map(<<Entry(Pad(n, lowerPublishableKey), Str(Pad(n, <<"evil">>)))>>) : n \in Pads}

QueryInputs ==
  {Undefined, Null, Arr(<<Str(<<"nope">>)>>), Str(<<"a=b">>), Num(0), Map(<<>>),
   Map(<<Entry(<<"foo">>, Str(<<"bar">>)), Entry(<<"baz">>, Str(<<"qux">>))>>),
   Map(<<Entry(<<"a", " ", "b">>, Str(<<"c", "&", "d">>)), Entry(<<"n">>, Num(10)),
         Entry(<<"t">>, Bool(TRUE))>>)}

NarrowCallOptions ==
  IF focus = "construct" THEN {EmptyOptions}
  ELSE IF focus = "pair"
  THEN {EmptyOptions, [timeout |-> Num(2000)], [timeout |-> Num(MIN_TIMEOUT_MS - 1)]}
  ELSE IF focus = "twin" THEN {EmptyOptions, [timeout |-> Num(MIN_TIMEOUT_MS - 1)]}
  ELSE {EmptyOptions, [timeout |-> Num(2000)], [timeout |-> Num(MIN_TIMEOUT_MS - 1)]}

CallOptionInputs ==
  IF focus = "call"
  THEN NarrowCallOptions
       \cup {[timeout |-> t] : t \in TimeoutInputs}
       \cup {[headers |-> h] : h \in CallHeaderInputs}
       \cup {[query |-> q] : q \in QueryInputs}
       \cup {[method |-> Str(<<"G", "E", "T">>)], [path |-> Str(<<"/", "other">>)],
             [body |-> Str(<<"raw">>)], [apiBaseUrl |-> OverrideUrl],
             [debug |-> Bool(TRUE)], [version |-> Str(<<"v2">>)]}
       \cup {[timeout |-> Num(MAX_TIMEOUT_MS), query |-> Null],
             [timeout |-> Str(<<"nope">>),
              headers |-> Map(<<Entry(NameRequestId, Str(<<"r3">>))>>)]}
  ELSE NarrowCallOptions

EventInputs ==
  IF focus = "call" THEN {ValidEvent, RichEvent, BigIntEvent} \cup InvalidEvents
  ELSE {ValidEvent, BadEvent}

EventsInputs ==
  IF focus = "call" THEN BatchInputs
  ELSE IF focus \in {"pair", "twin"} THEN {Batch(2, 0)}
  ELSE {Batch(2, 0), Batch(2, 2)}

\* the options tried with an argument: every option set with the plain
\* valid argument, the narrow ones with the others
OptionsFor(arg) ==
  IF arg \in {ValidEvent, Batch(2, 0)} THEN CallOptionInputs ELSE NarrowCallOptions

DoneInputs ==
  IF focus = "construct" THEN {"none", "returns"} ELSE {"none", "returns", "throws"}

\* the host and the transport at the time of a call: is AbortController
\* defined, does fetch throw, does fetch reject when its signal aborts
EnvInputs ==
  IF focus = "transport"
  THEN {[abort |-> a, throws |-> th, honours |-> h] :
          a \in BOOLEAN, th \in BOOLEAN, h \in BOOLEAN}
  ELSE IF focus \in {"pair", "twin"} THEN {[abort |-> TRUE, throws |-> FALSE, honours |-> TRUE]}
  ELSE {[abort |-> a, throws |-> FALSE, honours |-> a] : a \in BOOLEAN}

Response(ok, status, statusText) ==
  [received |-> TRUE, isNull |-> FALSE, ok |-> ok, status |-> status,
   statusText |-> statusText]

\* a transport that fulfils with null instead of a response
NullResponse ==
  [received |-> TRUE, isNull |-> TRUE, ok |-> FALSE, status |-> 0, statusText |-> ""]

ResponseInputs ==
  IF focus = "transport"
  THEN {Response(TRUE, 200, "OK"), Response(TRUE, 204, "No Content"),
        Response(FALSE, 400, "Bad Request"), Response(FALSE, 401, "Unauthorized"),
        NullResponse}
  ELSE IF focus \in {"call", "pair", "twin"}
  THEN {Response(TRUE, 200, "OK"), Response(FALSE, 401, "Unauthorized")}
  ELSE {Response(TRUE, 200, "OK")}

JsonObjectText == <<"{", "\"", "id", "\"", ":", "\"", "evt_1", "\"", "}">>

TextInputs ==
  IF focus = "transport"
  THEN {<<>>, JsonObjectText, <<"OK">>,
        <<"{", "\"", "id", "\"", ":">>,
        <<"null">>, <<"4", "0", "1">>, <<"0", "1">>, <<"\"", "O", "K", "\"">>,
        <<" ", "[", "1", ",", "{", "}", ",", "false", "]", "\n">>,
        <<"{", "\"", "a", "\"", ":", "1", ",", "\"", "a", "\"", ":", "2", "}">>,
        <<"{", "}", "x">>}
  ELSE IF focus = "call" THEN {<<>>, JsonObjectText}
  ELSE {JsonObjectText}

NetworkDown == RawError("Error", "NetworkDown")
AbortError == RawError("AbortError", "This operation was aborted")
Boom == RawError("Error", "boom")

(***************************************************************************)
(* Initial states and actions.                                             *)
(***************************************************************************)
NotConstructed == [called |-> FALSE, key |-> Undefined, options |-> Undefined,
                   threw |-> NoError, live |-> Undefined, shared |-> FALSE,
                   edits |-> 0]

Slots == DOMAIN calls

Init ==
  /\ client = NoClient
  /\ ctor = NotConstructed
  /\ calls = [i \in {1} |-> IdleCall]
  /\ focus \in {"construct", "call", "transport"}

\* the options object holds a headers object
HeadersObjectIn(options) ==
  /\ options.t = "options"
  /\ "headers" \in DOMAIN options.f
  /\ options.f.headers.t = "map"

\* new MeshesEventsClient(key, options).  The caller keeps the options
\* object (live); line 83 copies its keys, so that #options holds the
\* headers object of the caller itself (shared), not a copy of it
Construct ==
  /\ ~client.constructed
  /\ \E key \in KeyInputs, options \in CtorOptionInputs :
       LET r == Constructor(key, options)
       IN /\ client' = IF r.ok THEN r.client ELSE NoClient
          /\ ctor' = [called |-> TRUE, key |-> key, options |-> options,
                      threw |-> IF r.ok THEN NoError ELSE r.err,
                      live |-> options,
                      shared |-> r.ok /\ HeadersObjectIn(options),
                      edits |-> 0]
  /\ UNCHANGED <<calls, focus>>

\* a second client, constructed with the key and the options of the first
\* but for the debug flag, which is the opposite
DebugTwin ==
  LET given == IF ctor.options = Undefined THEN EmptyOptions ELSE ctor.options.f
  IN Constructor(ctor.key,
                 Opts(Spread(given, [debug |-> Bool(~client.debug)]))).client

\* the client a slot calls: the second slot of a twin run calls the twin
ClientOf(i) == IF focus = "twin" /\ i = 2 THEN DebugTwin ELSE client

\* a slot holds one call
Free(i) == calls[i].stage = "idle"

\* client.emit(event, opts, done)
Emit(i) ==
  /\ client.constructed
  /\ Free(i)
  /\ \E event \in EventInputs, done \in DoneInputs, env \in EnvInputs :
       \E opts \in OptionsFor(event) :
         calls' = [calls EXCEPT ![i] =
                     emit(ClientOf(i), event, opts, done, env.abort, env.throws,
                          env.honours)]
  /\ UNCHANGED <<client, ctor, focus>>

\* client.emitBatch(events, opts, done)
EmitBatch(i) ==
  /\ client.constructed
  /\ Free(i)
  /\ \E events \in EventsInputs, done \in DoneInputs, env \in EnvInputs :
       \E opts \in OptionsFor(events) :
         calls' = [calls EXCEPT ![i] =
                     emitBatch(ClientOf(i), events, opts, done, env.abort, env.throws,
                               env.honours)]
  /\ UNCHANGED <<client, ctor, focus>>

\* the transport's promise fulfils and the reaction of line 328 runs: it
\* starts reading the body, or throws on a null response (caught at 365)
TransportFulfil(i) ==
  /\ calls[i].transport = "pending"
  /\ \E r \in ResponseInputs :
       calls' = [calls EXCEPT ![i] =
         IF r.isNull
         THEN SettleInner(
                [@ EXCEPT !.transport = "fulfilled", !.response = r,
                          !.transportErr = RawError("TypeError", "null response")],
                AfterTransportFailure(RawError("TypeError", "null response")))
         ELSE [@ EXCEPT !.transport = "fulfilled", !.response = r, !.read = "pending"]]
  /\ UNCHANGED <<client, ctor, focus>>

\* variant: a rejected transport call is tried once more
TransportRejectRetries(i) ==
  /\ calls[i].transport = "pending"
  /\ calls' = [calls EXCEPT ![i] =
       IF @.fetchCalls < 2
       THEN [@ EXCEPT !.fetchCalls = @ + 1]
       ELSE SettleInner([@ EXCEPT !.transport = "rejected", !.transportErr = NetworkDown],
                        AfterTransportFailure(NetworkDown))]
  /\ UNCHANGED <<client, ctor, focus>>

\* the transport's promise rejects: a network failure
TransportReject(i) ==
  /\ calls[i].transport = "pending"
  /\ calls' = [calls EXCEPT ![i] =
       SettleInner([@ EXCEPT !.transport = "rejected", !.transportErr = NetworkDown],
                   AfterTransportFailure(NetworkDown))]
  /\ UNCHANGED <<client, ctor, focus>>

\* the transport's promise rejects because its signal was aborted
TransportAbort(i) ==
  /\ calls[i].transport = "pending"
  /\ calls[i].aborted
  /\ calls[i].honours
  /\ calls' = [calls EXCEPT ![i] =
       SettleInner([@ EXCEPT !.transport = "rejected", !.transportErr = AbortError],
                   AfterTransportFailure(AbortError))]
  /\ UNCHANGED <<client, ctor, focus>>

\* response.text() fulfils
ReadOk(i) ==
  /\ calls[i].read = "pending"
  /\ \E text \in TextInputs :
       calls' = [calls EXCEPT ![i] =
         SettleInner([@ EXCEPT !.read = "ok", !.text = text],
                     AfterRead(calls[i].response, text))]
  /\ UNCHANGED <<client, ctor, focus>>

\* response.text() rejects: a broken stream
ReadFail(i) ==
  /\ calls[i].read = "pending"
  /\ calls' = [calls EXCEPT ![i] =
       SettleInner([@ EXCEPT !.read = "failed", !.readErr = Boom],
                   AfterReadFailure(calls[i].response, Boom))]
  /\ UNCHANGED <<client, ctor, focus>>

\* response.text() rejects because the signal was aborted
ReadAbort(i) ==
  /\ calls[i].read = "pending"
  /\ calls[i].aborted
  /\ calls[i].honours
  /\ calls' = [calls EXCEPT ![i] =
       SettleInner([@ EXCEPT !.read = "failed", !.readErr = AbortError],
                   AfterReadFailure(calls[i].response, AbortError))]
  /\ UNCHANGED <<client, ctor, focus>>

\* a promise reaction is queued: timers run only when there is none
ReactionQueued == \E j \in Slots : calls[j].stage \in {"then", "catch", "finally"}

\* variant: the timer expires without aborting the signal
TimerFireWithoutAbort(i) ==
  /\ calls[i].timer = "armed"
  /\ ~ReactionQueued
  /\ calls' = [calls EXCEPT ![i] = [@ EXCEPT !.timer = "fired"]]
  /\ UNCHANGED <<client, ctor, focus>>

\* variant: one controller shared by the calls of the client, so that the
\* expiry of a timer aborts every outstanding call
TimerFireAbortsAll(i) ==
  /\ calls[i].timer = "armed"
  /\ ~ReactionQueued
  /\ calls' = [j \in DOMAIN calls |->
                 IF j = i THEN [calls[j] EXCEPT !.timer = "fired", !.aborted = TRUE]
                 ELSE IF calls[j].hasController /\ calls[j].stage = "wait"
                      THEN [calls[j] EXCEPT !.aborted = TRUE]
                      ELSE calls[j]]
  /\ UNCHANGED <<client, ctor, focus>>

\* the timer of line 245 expires: controller.abort()
TimerFire(i) ==
  /\ calls[i].timer = "armed"
  /\ ~ReactionQueued
  /\ calls' = [calls EXCEPT ![i] = [@ EXCEPT !.timer = "fired", !.aborted = TRUE]]
  /\ UNCHANGED <<client, ctor, focus>>

DeliverThen(i) ==
  /\ calls[i].stage = "then"
  /\ calls' = [calls EXCEPT ![i] = ThenReaction(@)]
  /\ UNCHANGED <<client, ctor, focus>>

DeliverCatch(i) ==
  /\ calls[i].stage = "catch"
  /\ calls' = [calls EXCEPT ![i] = CatchReaction(@)]
  /\ UNCHANGED <<client, ctor, focus>>

DeliverFinally(i) ==
  /\ calls[i].stage = "finally"
  /\ calls' = [calls EXCEPT ![i] = FinallyReaction(@)]
  /\ UNCHANGED <<client, ctor, focus>>

Next ==
  \/ Construct
  \/ \E i \in Slots : Emit(i)
  \/ \E i \in Slots : EmitBatch(i)
  \/ \E i \in Slots : TransportFulfil(i)
  \/ \E i \in Slots : TransportReject(i)
  \/ \E i \in Slots : TransportAbort(i)
  \/ \E i \in Slots : ReadOk(i)
  \/ \E i \in Slots : ReadFail(i)
  \/ \E i \in Slots : ReadAbort(i)
  \/ \E i \in Slots : TimerFire(i)
  \/ \E i \in Slots : DeliverThen(i)
  \/ \E i \in Slots : DeliverCatch(i)
  \/ \E i \in Slots : DeliverFinally(i)

Spec == Init /\ [][Next]_vars

\* The event loop runs every queued reaction and every expired timer, and a
\* transport that honours its signal rejects once the signal is aborted.
\* Nothing obliges the network to answer.
Fairness ==
  /\ WF_vars(\E i \in Slots : TimerFire(i))
  /\ WF_vars(\E i \in Slots : TransportAbort(i))
  /\ WF_vars(\E i \in Slots : ReadAbort(i))
  /\ WF_vars(\E i \in Slots : DeliverThen(i))
  /\ WF_vars(\E i \in Slots : DeliverCatch(i))
  /\ WF_vars(\E i \in Slots : DeliverFinally(i))

LiveSpec == Init /\ [][Next]_vars /\ Fairness

\* two calls on one client, to compare a run with a callback and one without
PairInit ==
  /\ client = NoClient
  /\ ctor = NotConstructed
  /\ calls = [i \in {1, 2} |-> IdleCall]
  /\ focus = "pair"

PairSpec == PairInit /\ [][Next]_vars

\* two clients that differ in the debug flag only, one call on each
TwinInit ==
  /\ client = NoClient
  /\ ctor = NotConstructed
  /\ calls = [i \in {1, 2} |-> IdleCall]
  /\ focus = "twin"

TwinSpec == TwinInit /\ [][Next]_vars

\* what the caller may do to the headers object it passed: add an entry,
\* change one, remove them all
NameNew == <<"X", "-", "N", "e", "w">>

RECURSIVE SetEntry(_, _, _)
SetEntry(m, name, value) ==
  IF m = <<>> THEN <<>>
  ELSE <<IF Head(m).name = name THEN Entry(name, value) ELSE Head(m)>>
         \o SetEntry(Tail(m), name, value)

\* headers[name] = value on the object of the caller
PutEntry(m, name, value) ==
  IF MapHas(m, name) THEN SetEntry(m, name, value) ELSE Append(m, Entry(name, value))

HeaderEdits(m) ==
  {PutEntry(m, NameNew, Str(<<"n1">>)), PutEntry(m, NameRequestId, Str(<<"r7">>)), <<>>}

\* what the caller may do to the options object it passed: set or delete
\* the timeout, set the base URL, put another headers object in place
OptionEdits(f) ==
  {Spread(f, [timeout |-> Num(15000)]),
   [key \in DOMAIN f \ {"timeout"} |-> f[key]],
   Spread(f, [apiBaseUrl |-> Str(<<"https://other.test">>)]),
   Spread(f, [headers |-> Map(<<Entry(NameNew, Str(<<"n2">>))>>)])}

\* the caller changes the options object after the construction and before
\* a later call: #options is a copy (line 83) and stays as it is
MutateOptions ==
  /\ client.constructed
  /\ ctor.live.t = "options"
  /\ ctor.edits < MaxEdits
  /\ \A i \in Slots : Free(i)
  /\ \E f \in OptionEdits(ctor.live.f) :
       /\ f # ctor.live.f
       /\ ctor' = [ctor EXCEPT
                     !.live = Opts(f),
                     !.shared = @ /\ Get(f, "headers") = Get(ctor.live.f, "headers"),
                     !.edits = @ + 1]
  /\ UNCHANGED <<client, calls, focus>>

\* the caller changes the headers object in place: while it is the object
\* that #options.headers refers to (line 124), the client sees the change
MutateHeaders ==
  /\ client.constructed
  /\ HeadersObjectIn(ctor.live)
  /\ ctor.edits < MaxEdits
  /\ \A i \in Slots : Free(i)
  /\ \E m \in HeaderEdits(ctor.live.f.headers.m) :
       /\ m # ctor.live.f.headers.m
       /\ ctor' = [ctor EXCEPT !.live = Opts([@.f EXCEPT !.headers = Map(m)]),
                               !.edits = @ + 1]
       /\ client' = IF ctor.shared
                    THEN [client EXCEPT !.options = [@ EXCEPT !.headers = Map(m)]]
                    ELSE client
  /\ UNCHANGED <<calls, focus>>

\* a client whose caller keeps changing the objects it passed
MutateInit ==
  /\ client = NoClient
  /\ ctor = NotConstructed
  /\ calls = [i \in {1} |-> IdleCall]
  /\ focus = "mutate"

MutateNext == Next \/ MutateOptions \/ MutateHeaders

MutateSpec == MutateInit /\ [][MutateNext]_vars

(***************************************************************************)
(* Properties.  What a caller observes of a call: what it threw, the       *)
(* promise it returned, the invocations of its callback.                   *)
(***************************************************************************)
\* the call went through #request and returned
Returned(call) == call.stage \notin {"idle", "threw"}

Over(call) == call.stage = "done"

Success(value) == [err |-> Null, data |-> value]
Failure(error) == [err |-> error, data |-> Undefined]

\* the outcome is delivered to the caller as out: by the promise when no
\* callback was given, else by the first invocation of the callback
Delivers(call, out) ==
  /\ call.inner = out
  /\ Over(call) /\ call.done = "none" => call.promise = out
  /\ Over(call) /\ call.done # "none" =>
       /\ call.cbCalls # <<>>
       /\ call.cbCalls[1] = IF out.state = "fulfilled" THEN Success(out.value)
                            ELSE Failure(out.value)

\* the shape the documentation asks of an event
WellFormedEvent(e) ==
  /\ TypeOf(e) = "object" /\ e # Null
  /\ TypeOf(Prop(e, <<"event">>)) = "string"
  /\ \E k \in 1..Len(Prop(e, <<"event">>).s) : ~IsBlank(Prop(e, <<"event">>).s[k])
  /\ TypeOf(Prop(e, <<"payload">>)) = "object" /\ Prop(e, <<"payload">>) # Null
  /\ TypeOf(Prop(Prop(e, <<"payload">>), <<"email">>)) = "string"
  /\ \E k \in 1..Len(Prop(Prop(e, <<"payload">>), <<"email">>).s) :
       ~IsBlank(Prop(Prop(e, <<"payload">>), <<"email">>).s[k])

\* C1: every request handed to the transport carries the four contract
\* headers with their fixed values (the publishable key of the client, the
\* client identity, application/json twice), and no other header whose name
\* equals one of the four when case is ignored.
C1_ContractHeaders ==
  \A i \in Slots :
    calls[i].request.sent =>
      LET h == calls[i].request.headers
      IN /\ MapGet(h, HdrPublishableKey) = client.publishableKey
         /\ MapGet(h, HdrClient) = ClientIdentity
         /\ MapGet(h, HdrContentType) = ApplicationJson
         /\ MapGet(h, HdrAccept) = ApplicationJson
         /\ \A k \in 1..Len(h) :
              ToLowerCase(h[k].name) \in
                  {ToLowerCase(HdrPublishableKey), ToLowerCase(HdrClient),
                   ToLowerCase(HdrContentType), ToLowerCase(HdrAccept)}
                => h[k].name \in {HdrPublishableKey, HdrClient, HdrContentType, HdrAccept}
         /\ \A k, l \in 1..Len(h) : h[k].name = h[l].name => k = l

\* a request went out for a call whose per-call headers tried to replace
\* three contract headers and to add one of their own, which survived
C1_Witness ==
  \E i \in Slots :
    /\ calls[i].request.sent
    /\ "headers" \in DOMAIN calls[i].opts
    /\ calls[i].opts.headers.t = "map"
    /\ MapHas(calls[i].opts.headers.m, HdrClient)
    /\ MapHas(calls[i].opts.headers.m, HdrAccept)
    /\ MapGet(calls[i].request.headers, NameRequestId) = Str(<<"r1">>)

\* C2: whatever the constructor or a call throws, whatever a returned
\* promise rejects with and whatever error a callback receives is a
\* MeshesApiError.
C2_OnlyMeshesApiErrors ==
  /\ ctor.threw # NoError => IsMeshesApiError(ctor.threw)
  /\ \A i \in Slots :
       /\ calls[i].thrown # NoError => IsMeshesApiError(calls[i].thrown)
       /\ calls[i].done = "none" /\ calls[i].promise.state = "rejected"
            => IsMeshesApiError(calls[i].promise.value)
       /\ \A k \in 1..Len(calls[i].cbCalls) :
            calls[i].cbCalls[k].err # Null => IsMeshesApiError(calls[i].cbCalls[k].err)

\* two finished calls with the same arguments, host and transport behaviour
SameRun(a, b) ==
  /\ a.op = b.op /\ a.arg = b.arg /\ a.opts = b.opts
  /\ a.hasController = b.hasController /\ a.honours = b.honours
  /\ a.transport = b.transport /\ a.transportErr = b.transportErr
  /\ a.response = b.response
  /\ a.read = b.read /\ a.text = b.text /\ a.readErr = b.readErr

Finished(call) == call.stage \in {"threw", "done"}

\* C3: of two finished calls that differ only in that the second was given
\* a callback, either both threw the same error, or the first returned a
\* promise and the second undefined, and the callback was invoked with
\* (null, R) when the promise resolved with R and with (E) when it rejected
\* with E.
C3_CallbackPromiseDuality ==
  \A i, j \in Slots :
    ( /\ Finished(calls[i]) /\ Finished(calls[j])
      /\ SameRun(calls[i], calls[j])
      /\ calls[i].done = "none" /\ calls[j].done # "none" )
    => /\ calls[i].thrown = calls[j].thrown
       /\ calls[i].stage = calls[j].stage
       /\ Over(calls[i]) =>
            /\ calls[i].returned = "promise"
            /\ calls[j].returned = "undefined"
            /\ calls[i].cbCalls = <<>>
            /\ calls[i].promise.state \in {"fulfilled", "rejected"}
            /\ calls[j].cbCalls # <<>>
            /\ calls[i].promise.state = "fulfilled"
                 => calls[j].cbCalls[1] = Success(calls[i].promise.value)
            /\ calls[i].promise.state = "rejected"
                 => calls[j].cbCalls[1] = Failure(calls[i].promise.value)

\* a promise call rejected by the server's answer next to a callback call
\* that received the same error
C3_Witness ==
  \E i, j \in Slots :
    /\ Over(calls[i]) /\ Over(calls[j]) /\ SameRun(calls[i], calls[j])
    /\ calls[i].done = "none" /\ calls[j].done = "returns"
    /\ calls[i].read = "ok"
    /\ calls[i].promise.state = "rejected"
    /\ calls[j].cbCalls = <<Failure(calls[i].promise.value)>>

\* the argument of the call is not what emit / emitBatch documents: the
\* event, or a member of the array of events, is not well formed
InvalidArgument(call) ==
  \/ call.op = "emit" /\ ~WellFormedEvent(call.arg)
  \/ /\ call.op = "emitBatch"
     /\ call.arg.t = "array"
     /\ \E k \in 1..Len(call.arg.a) : ~WellFormedEvent(call.arg.a[k])

\* C4: a call whose event, or one of whose events, is not well formed threw
\* a MeshesApiError before returning; the transport was not called for it,
\* no timer was armed and its callback is never invoked.
C4_InvalidEventThrowsFirst ==
  \A i \in Slots :
    InvalidArgument(calls[i]) =>
      /\ calls[i].stage = "threw"
      /\ IsMeshesApiError(calls[i].thrown)
      /\ calls[i].returned = "none"
      /\ calls[i].fetchCalls = 0
      /\ ~calls[i].request.sent
      /\ calls[i].timer = "none"
      /\ calls[i].cbCalls = <<>>

\* emitBatch with a callback threw on the second of two events
C4_Witness ==
  \E i \in Slots :
    /\ calls[i].op = "emitBatch"
    /\ calls[i].arg.t = "array" /\ Len(calls[i].arg.a) = 2
    /\ WellFormedEvent(calls[i].arg.a[1]) /\ ~WellFormedEvent(calls[i].arg.a[2])
    /\ calls[i].done # "none"
    /\ calls[i].stage = "threw"

\* the response was received and its text was read
BodyRead(call) ==
  /\ call.response.received
  /\ ~call.response.isNull
  /\ call.read = "ok"

\* the empty / JSON / text rule applied to the text of a body
BodyValue(text) ==
  IF text = <<>> THEN Null
  ELSE IF JSONParse(text).ok THEN JSONParse(text).v
  ELSE Str(text)

\* C5: once the text of a response with ok = true has been read, the call
\* resolves, with null for the empty text, with the parsed value for a text
\* that parses as JSON and with the text itself otherwise.
C5_SuccessBody ==
  \A i \in Slots :
    BodyRead(calls[i]) /\ calls[i].response.ok =>
      Delivers(calls[i], Fulfilled(BodyValue(calls[i].text)))

\* a promise resolved with the text of a body that is not JSON
C5_Witness ==
  \E i \in Slots :
    /\ BodyRead(calls[i]) /\ calls[i].response.ok
    /\ calls[i].text = <<"{", "\"", "id", "\"", ":">>
    /\ calls[i].done = "none"
    /\ calls[i].promise = Fulfilled(Str(<<"{", "\"", "id", "\"", ":">>))

\* C6: once the body of a response with ok = false has been read, the call
\* fails with the MeshesApiError "Meshes API request failed" whose data
\* holds the status and statusText of the response and the body by the
\* empty / JSON / text rule.
C6_FailureBody ==
  \A i \in Slots :
    BodyRead(calls[i]) /\ ~calls[i].response.ok =>
      Delivers(calls[i],
        Rejected([name |-> "MeshesApiError",
                  message |-> "Meshes API request failed",
                  data |-> [status |-> calls[i].response.status,
                            statusText |-> calls[i].response.statusText,
                            data |-> BodyValue(calls[i].text)]]))

\* a callback received the failure of a 401 answer with a JSON body
C6_Witness ==
  \E i \in Slots :
    /\ BodyRead(calls[i]) /\ ~calls[i].response.ok
    /\ calls[i].response.status = 401
    /\ calls[i].text = JsonObjectText
    /\ Len(calls[i].cbCalls) = 1
    /\ calls[i].cbCalls[1].err.message = "Meshes API request failed"
    /\ calls[i].cbCalls[1].err.data.status = 401
    /\ calls[i].cbCalls[1].err.data.data.t = "object"

\* the deadline of a call: its own timeout when that is a number, else the
\* default of the client
Deadline(call) ==
  IF "timeout" \in DOMAIN call.opts /\ TypeOf(call.opts.timeout) = "number"
  THEN call.opts.timeout
  ELSE client.apiTimeout

\* a call was handed to a transport that honours the signal it was given,
\* and has not settled
AbortableUnsettled ==
  \E i \in Slots :
    /\ calls[i].fetchCalls > 0
    /\ calls[i].hasController
    /\ calls[i].honours
    /\ ~Over(calls[i])

\* C7: where AbortController exists the timer of a call runs for the
\* deadline of the call and its expiry aborts the signal; a call whose
\* transport rejected fails with the MeshesApiError "Request Failure" whose
\* data is the error of the transport; and a call handed to a transport
\* that honours the signal eventually settles.
C7_DeadlineSettles ==
  /\ [](\A i \in Slots :
          /\ Returned(calls[i]) /\ calls[i].hasController =>
               calls[i].timer # "none" /\ calls[i].timerMs = Deadline(calls[i])
          /\ calls[i].timer = "fired" => calls[i].aborted
          /\ calls[i].aborted => calls[i].request.sent /\ calls[i].request.signal
          /\ calls[i].transport = "rejected" =>
               Delivers(calls[i],
                 Rejected([name |-> "MeshesApiError", message |-> "Request Failure",
                           data |-> calls[i].transportErr])))
  /\ (AbortableUnsettled ~> ~AbortableUnsettled)

\* the deadline passed with the transport pending, the transport rejected
\* with its abort error and the promise rejected with the wrapped error
C7_Witness ==
  \E i \in Slots :
    /\ calls[i].timer = "fired" /\ calls[i].aborted
    /\ calls[i].transport = "rejected"
    /\ calls[i].transportErr = AbortError
    /\ calls[i].done = "none"
    /\ calls[i].promise =
         Rejected([name |-> "MeshesApiError", message |-> "Request Failure",
                   data |-> AbortError])

\* the per-call options carry nothing #request refuses
UsableOptions(opts) ==
  /\ "timeout" \in DOMAIN opts =>
       \/ opts.timeout.t = "undefined"
       \/ opts.timeout.t = "number" /\ opts.timeout.n >= 1000 /\ opts.timeout.n <= 30000
  /\ "query" \in DOMAIN opts => opts.query.t \in {"undefined", "map"}

\* C8: emitBatch threw a MeshesApiError without calling the transport when
\* its argument is no array, is empty or has more than 100 elements; with 1
\* to 100 well-formed events and usable options it called the transport
\* exactly once, at the bulk path under the base URL, with the JSON text of
\* the whole array as the body.
C8_BatchSize ==
  \A i \in Slots :
    calls[i].op = "emitBatch" =>
      /\ ( \/ calls[i].arg.t # "array"
           \/ Len(calls[i].arg.a) = 0
           \/ Len(calls[i].arg.a) > 100 )
         => /\ calls[i].stage = "threw"
            /\ IsMeshesApiError(calls[i].thrown)
            /\ calls[i].fetchCalls = 0
      /\ ( /\ calls[i].arg.t = "array"
           /\ Len(calls[i].arg.a) \in 1..100
           /\ ~InvalidArgument(calls[i])
           /\ UsableOptions(calls[i].opts) )
         => /\ calls[i].thrown = NoError
            /\ calls[i].fetchCalls = 1
            /\ calls[i].request.sent
            /\ LET base == client.apiBaseUrl.s
                   bulk == <<"/", "events", "/", "bulk">>
               IN /\ Len(calls[i].request.url) >= Len(base) + Len(bulk)
                  /\ SubSeq(calls[i].request.url, 1, Len(base) + Len(bulk)) = base \o bulk
            /\ calls[i].request.body = Str(JSONStringify(calls[i].arg).s)

\* a batch of exactly 100 events went out in one request
C8_Witness ==
  \E i \in Slots :
    /\ calls[i].op = "emitBatch"
    /\ calls[i].arg.t = "array"
    /\ Len(calls[i].arg.a) = 100
    /\ calls[i].fetchCalls = 1
    /\ calls[i].request.sent
    /\ Over(calls[i])

\* the argument of the call is what emit / emitBatch asks for
ValidArgument(call) ==
  \/ call.op = "emit" /\ WellFormedEvent(call.arg)
  \/ /\ call.op = "emitBatch"
     /\ call.arg.t = "array"
     /\ Len(call.arg.a) \in 1..100
     /\ \A k \in 1..Len(call.arg.a) : WellFormedEvent(call.arg.a[k])

\* a timeout that was given and is no number, or is a number outside
\* [1000, 30000]
RefusedTimeout(v) ==
  /\ v.t # "undefined"
  /\ \/ TypeOf(v) # "number"
     \/ v.t = "number" /\ (v.n < 1000 \/ v.n > 30000)

AcceptedTimeout(v) == v.t = "number" /\ v.n >= 1000 /\ v.n <= 30000

InvalidCallOptions(opts) ==
  \/ "timeout" \in DOMAIN opts /\ RefusedTimeout(opts.timeout)
  \/ "query" \in DOMAIN opts /\ opts.query.t \in {"null", "array"}

\* C9: a call with a valid argument and an invalid per-call timeout or
\* query does not throw: it returns, never calls the transport, and fails
\* with a MeshesApiError through its promise or its callback.  A per-call
\* timeout within [1000, 30000] is not refused, and is the delay of the
\* timer of the call.
C9_CallOptions ==
  \A i \in Slots :
    ValidArgument(calls[i]) =>
      /\ InvalidCallOptions(calls[i].opts) =>
           /\ calls[i].thrown = NoError
           /\ Returned(calls[i])
           /\ calls[i].returned = IF calls[i].done = "none" THEN "promise" ELSE "undefined"
           /\ calls[i].fetchCalls = 0
           /\ ~calls[i].request.sent
           /\ calls[i].inner.state = "rejected"
           /\ IsMeshesApiError(calls[i].inner.value)
           /\ Delivers(calls[i], calls[i].inner)
      /\ ("timeout" \in DOMAIN calls[i].opts /\ AcceptedTimeout(calls[i].opts.timeout)) =>
           /\ Returned(calls[i])
           /\ calls[i].hasController => calls[i].timerMs = calls[i].opts.timeout
           /\ calls[i].inner.state = "rejected" =>
                calls[i].inner.value.message
                  \notin {"Invalid request timeout", "Unsupported request timeout"}
           /\ UsableOptions(calls[i].opts) /\ JSONStringify(calls[i].arg).ok =>
                calls[i].fetchCalls = 1

\* a callback received the error of a per-call timeout of 30001
C9_Witness ==
  \E i \in Slots :
    /\ ValidArgument(calls[i])
    /\ "timeout" \in DOMAIN calls[i].opts
    /\ calls[i].opts.timeout = Num(30001)
    /\ calls[i].fetchCalls = 0
    /\ Len(calls[i].cbCalls) = 1
    /\ IsMeshesApiError(calls[i].cbCalls[1].err)

\* the options the constructor was given, less their timeout
WithoutTimeout(options) ==
  Opts([key \in DOMAIN options.f \ {"timeout"} |-> options.f[key]])

\* C10: a constructor call whose options.timeout is no number, or is a
\* number below 1000 or above 30000, throws a MeshesApiError and yields no
\* client; with a timeout within [1000, 30000], and arguments that are
\* accepted without it, the client is constructed and its default deadline
\* is that timeout.
C10_ConstructorTimeout ==
  ( /\ ctor.called
    /\ ctor.options.t = "options"
    /\ "timeout" \in DOMAIN ctor.options.f )
  => LET v == ctor.options.f.timeout
     IN /\ RefusedTimeout(v) =>
             /\ ~client.constructed
             /\ IsMeshesApiError(ctor.threw)
        /\ AcceptedTimeout(v) /\ Constructor(ctor.key, WithoutTimeout(ctor.options)).ok =>
             /\ ctor.threw = NoError
             /\ client.constructed
             /\ client.apiTimeout = v

\* a client constructed with the largest timeout allowed
C10_Witness ==
  /\ ctor.called
  /\ ctor.options.t = "options"
  /\ "timeout" \in DOMAIN ctor.options.f
  /\ ctor.options.f.timeout = Num(30000)
  /\ client.constructed
  /\ client.apiTimeout = Num(30000)

(***************************************************************************)
(* The header policy, stated apart from #cleanHeaders.                     *)
(***************************************************************************)
\* text without its leading and trailing white space
Stripped(text) ==
  LET inked == {k \in 1..Len(text) : ~IsBlank(text[k])}
  IN IF inked = {} THEN <<>>
     ELSE SubSeq(text,
                 CHOOSE k \in inked : \A l \in inked : k <= l,
                 CHOOSE k \in inked : \A l \in inked : l <= k)

\* the name is one of the four contract names once trimmed, in any case
ReservedName(name) ==
  ToLowerCase(Stripped(name)) \in
    {ToLowerCase(HdrPublishableKey), ToLowerCase(HdrClient),
     ToLowerCase(HdrContentType), ToLowerCase(HdrAccept)}

\* an entry the policy keeps
KeptEntry(e) ==
  /\ TypeOf(e.value) = "string"
  /\ Stripped(e.name) # <<>>
  /\ Stripped(e.value.s) # <<>>
  /\ ~ReservedName(e.name)

\* the entries of the per-call headers of a call
CallHeaders(call) ==
  IF "headers" \in DOMAIN call.opts THEN ObjectEntries(call.opts.headers) ELSE <<>>

\* the per-call options less the reserved entries of their headers
WithoutReserved(opts) ==
  LET es == ObjectEntries(opts.headers)
      keep == {k \in 1..Len(es) : ~ReservedName(es[k].name)}
      Pick[n \in 0..Len(es)] ==
        IF n = 0 THEN <<>>
        ELSE IF n \in keep THEN Append(Pick[n - 1], es[n]) ELSE Pick[n - 1]
  IN [opts EXCEPT !.headers = Map(Pick[Len(es)])]

\* the call can be dispatched: nothing but its headers is in question
Dispatchable(call) ==
  /\ ValidArgument(call)
  /\ UsableOptions(call.opts)
  /\ JSONStringify(call.arg).ok

\* C11: a call whose per-call headers hold a reserved name is dispatched
\* all the same; every other per-call entry that the policy keeps is in the
\* request under its trimmed name with its trimmed value; and the request
\* is the one the call would have made without the reserved entries.
C11_ReservedPerCallHeaderDropped ==
  \A i \in Slots :
    ( /\ Dispatchable(calls[i])
      /\ "headers" \in DOMAIN calls[i].opts
      /\ calls[i].opts.headers.t = "map"
      /\ \E k \in 1..Len(CallHeaders(calls[i])) :
           ReservedName(CallHeaders(calls[i])[k].name) )
    => /\ calls[i].thrown = NoError
       /\ calls[i].request.sent
       /\ \A k \in 1..Len(CallHeaders(calls[i])) :
            LET e == CallHeaders(calls[i])[k]
            IN KeptEntry(e) =>
                 MapGet(calls[i].request.headers, Stripped(e.name))
                   = Str(Stripped(e.value.s))
       /\ calls[i].request =
            FetchArguments(client,
              MergedOptions(client, WithoutReserved(calls[i].opts),
                            Get(calls[i].merged, "path").s, calls[i].arg),
              calls[i].hasController)

\* what holds of reserved per-call names whichever of two equal names
\* wins: the call is dispatched, with the request it would have made
\* without the reserved entries
ReservedPerCallHeaderIgnored ==
  \A i \in Slots :
    ( /\ Dispatchable(calls[i])
      /\ "headers" \in DOMAIN calls[i].opts
      /\ calls[i].opts.headers.t = "map"
      /\ \E k \in 1..Len(CallHeaders(calls[i])) :
           ReservedName(CallHeaders(calls[i])[k].name) )
    => /\ calls[i].thrown = NoError
       /\ calls[i].request.sent
       /\ calls[i].request =
            FetchArguments(client,
              MergedOptions(client, WithoutReserved(calls[i].opts),
                            Get(calls[i].merged, "path").s, calls[i].arg),
              calls[i].hasController)

\* the entries of the headers the constructor was given
CtorHeaders ==
  IF /\ ctor.called
     /\ ctor.options.t = "options"
     /\ "headers" \in DOMAIN ctor.options.f
  THEN ObjectEntries(ctor.options.f.headers)
  ELSE <<>>

\* C12: a constructor call whose options.headers hold a name that is
\* reserved once trimmed, in any case, throws a MeshesApiError and yields
\* no client.
C12_ReservedConstructorHeaderRefused ==
  (\E k \in 1..Len(CtorHeaders) : ReservedName(CtorHeaders[k].name))
  => /\ ~client.constructed
     /\ IsMeshesApiError(ctor.threw)

\* what the constructor does refuse: a name that is reserved as written,
\* in any case
ExactReservedConstructorHeaderRefused ==
  (\E k \in 1..Len(CtorHeaders) :
     ToLowerCase(CtorHeaders[k].name) \in forbiddenHeaders)
  => /\ ~client.constructed
     /\ IsMeshesApiError(ctor.threw)

\* C13: a call made where AbortController does not exist arms no timer and
\* aborts nothing; it is dispatched whenever its arguments allow, with no
\* signal; it stays unsettled while the transport or the reading of the
\* body is pending; and when it fails, its arguments, the transport, the
\* reading of the body or the answer of the server account for it.
C13_NoAbortController ==
  \A i \in Slots :
    Returned(calls[i]) /\ ~calls[i].hasController =>
      /\ calls[i].timer = "none"
      /\ calls[i].timerMs = Undefined
      /\ ~calls[i].aborted
      /\ Dispatchable(calls[i]) => calls[i].request.sent /\ calls[i].fetchCalls = 1
      /\ calls[i].request.sent => ~calls[i].request.signal
      /\ calls[i].transport = "pending" \/ calls[i].read = "pending" =>
           /\ calls[i].inner = Pending
           /\ calls[i].promise = Pending
           /\ calls[i].cbCalls = <<>>
      /\ calls[i].inner.state = "rejected" =>
           \/ ~Dispatchable(calls[i])
           \/ calls[i].transportErr # NoError
           \/ calls[i].readErr # NoError
           \/ calls[i].response.received /\ ~calls[i].response.ok

\* a call without controller resolved once the transport had answered
C13_Witness ==
  \E i \in Slots :
    /\ ~calls[i].hasController
    /\ calls[i].request.sent /\ ~calls[i].request.signal
    /\ calls[i].timer = "none"
    /\ calls[i].read = "ok"
    /\ calls[i].done = "none"
    /\ calls[i].promise.state = "fulfilled"

\* the base URL the constructor was asked for, or the one the client has
BaseUrl ==
  IF /\ ctor.options.t = "options"
     /\ "apiBaseUrl" \in DOMAIN ctor.options.f
     /\ ctor.options.f.apiBaseUrl.t \notin {"undefined", "null"}
  THEN ctor.options.f.apiBaseUrl.s
  ELSE client.apiBaseUrl.s

\* the path of the operation
OperationPath(call) ==
  IF call.op = "emit" THEN <<"/", "events">> ELSE <<"/", "events", "/", "bulk">>

\* C14: every call that its arguments allow is dispatched, and every
\* request is a POST to the base URL followed by /events for emit and by
\* /events/bulk for emitBatch, then by nothing or by "?" and a query
\* string, nothing when no query was given, with the JSON text of the
\* argument as body, whatever keys the per-call options hold.
C14_RequestShape ==
  \A i \in Slots :
    /\ Dispatchable(calls[i]) => calls[i].request.sent
    /\ calls[i].request.sent =>
         LET url == calls[i].request.url
             stem == BaseUrl \o OperationPath(calls[i])
         IN /\ calls[i].request.method = Str(<<"P", "O", "S", "T">>)
            /\ Len(url) >= Len(stem)
            /\ SubSeq(url, 1, Len(stem)) = stem
            /\ Len(url) > Len(stem) => url[Len(stem) + 1] = "?"
            /\ ("query" \notin DOMAIN calls[i].opts \/ calls[i].opts.query.t = "undefined")
                 => url = stem
            /\ calls[i].request.body = Str(JSONStringify(calls[i].arg).s)

\* a request went to /events under the default base URL although the
\* per-call options named another base URL
C14_Witness ==
  \E i \in Slots :
    /\ calls[i].op = "emit"
    /\ "apiBaseUrl" \in DOMAIN calls[i].opts
    /\ calls[i].opts.apiBaseUrl = OverrideUrl
    /\ calls[i].request.sent
    /\ calls[i].request.url = client.apiBaseUrl.s \o <<"/", "events">>
    /\ client.apiBaseUrl # OverrideUrl

\* the constructor was given no base URL
NoBaseUrlOverride ==
  /\ client.constructed
  /\ \/ ctor.options.t # "options"
     \/ "apiBaseUrl" \notin DOMAIN ctor.options.f
     \/ ctor.options.f.apiBaseUrl.t \in {"undefined", "null"}

\* a query with at least one parameter was given to the call
QueryGiven(call) ==
  /\ "query" \in DOMAIN call.opts
  /\ call.opts.query.t = "map"
  /\ call.opts.query.m # <<>>

\* the requests of emit on a client without override go to stem, followed
\* by "?" when a query was given
EmitGoesTo(stem) ==
  \A i \in Slots :
    ( /\ NoBaseUrlOverride
      /\ calls[i].op = "emit"
      /\ calls[i].request.sent )
    => /\ "query" \notin DOMAIN calls[i].opts => calls[i].request.url = stem
       /\ QueryGiven(calls[i]) =>
            /\ Len(calls[i].request.url) > Len(stem)
            /\ SubSeq(calls[i].request.url, 1, Len(stem) + 1) = stem \o <<"?">>

\* C15: a client constructed without a base URL override sends the request
\* of emit to https://events.meshes.io/api/v1/events, followed by "?" and
\* the query string when query parameters are given.
C15_DefaultUrlEventsHost ==
  EmitGoesTo(<<"https://events.meshes.io/api/", "v1", "/", "events">>)

\* where the requests do go: the host api.meshes.io
DefaultUrlApiHost ==
  EmitGoesTo(<<"https://api.meshes.io/api/", "v1", "/", "events">>)

\* the JSON text of RichEvent, written out: the member whose value is
\* undefined is absent, every other member is present in insertion order
RichEventJson ==
  <<"{", "\"", "event", "\"", ":", "\"", "user.signed_up", "\"", ",",
    "\"", "resource", "\"", ":", "\"", "user", "\"", ",",
    "\"", "payload", "\"", ":", "{",
      "\"", "email", "\"", ":", "\"", " ", "a@b.com", "\"", ",",
      "\"", "name", "\"", ":", "\"", "T", "\\", "\"", "s", "\"", ",",
      "\"", "age", "\"", ":", "4", "2", "}", ",",
    "\"", "extra", "\"", ":", "[", "true", ",", "null", "]", "}">>

\* the argument of a call that was made is the one the caller passed
ArgumentKept ==
  \A i \in Slots : calls[i].op # "none" => calls'[i].arg = calls[i].arg

\* C16: for any valid event passed to emit the body handed to the transport
\* is JSON.stringify(event), every member of the event included and none
\* added, removed or changed, and the event of the caller is never changed
\* by the call.
C16_BodyIsEventJson ==
  /\ [](\A i \in Slots :
          ( /\ calls[i].op = "emit"
            /\ WellFormedEvent(calls[i].arg)
            /\ calls[i].request.sent )
          => /\ JSONStringify(calls[i].arg).ok
             /\ calls[i].request.body = Str(JSONStringify(calls[i].arg).s)
             /\ calls[i].arg = RichEvent =>
                  calls[i].request.body = Str(RichEventJson))
  /\ [][ArgumentKept]_vars

\* an event with unknown members was sent, and the call is over
C16_Witness ==
  \E i \in Slots :
    /\ calls[i].op = "emit"
    /\ calls[i].arg = RichEvent
    /\ calls[i].request.sent
    /\ calls[i].request.body = Str(RichEventJson)
    /\ Over(calls[i])

\* the per-call entry e and the construction entry d are both kept by the
\* policy and have the same name once trimmed
Collide(e, d) ==
  /\ KeptEntry(e)
  /\ KeptEntry(d)
  /\ Stripped(e.name) = Stripped(d.name)

\* of a per-call header and a construction header of the same name, the
\* request carries the value picked by Winner(e, d)
CollisionCarries(Winner(_, _)) ==
  \A i \in Slots :
    calls[i].request.sent =>
      \A k \in 1..Len(CallHeaders(calls[i])), l \in 1..Len(CtorHeaders) :
        LET e == CallHeaders(calls[i])[k]
            d == CtorHeaders[l]
        IN Collide(e, d) =>
             MapGet(calls[i].request.headers, Stripped(e.name))
               = Str(Stripped(Winner(e, d).value.s))

PerCallEntry(e, d) == e
ConstructionEntry(e, d) == d

\* C17: when a per-call header has the same name as a construction-time
\* default header, the request of the call carries the per-call value.
C17_PerCallHeaderWins == CollisionCarries(PerCallEntry)

\* what the request does carry: the value given at construction
ConstructionHeaderWins == CollisionCarries(ConstructionEntry)

\* a request was sent for a call whose header collides with one of the
\* client, the two values being different
HeaderCollision ==
  \E i \in Slots :
    /\ calls[i].request.sent
    /\ \E k \in 1..Len(CallHeaders(calls[i])), l \in 1..Len(CtorHeaders) :
         /\ Collide(CallHeaders(calls[i])[k], CtorHeaders[l])
         /\ Stripped(CallHeaders(calls[i])[k].value.s) # Stripped(CtorHeaders[l].value.s)

\* the positions of es whose entry the policy keeps
KeptAt(es) == {k \in 1..Len(es) : KeptEntry(es[k])}

\* the text-keyed object m holds the entries of es that the policy keeps,
\* each under its trimmed name with its trimmed value (of two entries with
\* the same trimmed name, the later one), next to the names in others, and
\* nothing else; the values of the names in others are not looked at
HoldsKept(m, es, others) ==
  /\ Cardinality(MapNames(m)) = Len(m)
  /\ MapNames(m) = {Stripped(es[k].name) : k \in KeptAt(es)} \cup others
  /\ \A k \in KeptAt(es) :
       \/ Stripped(es[k].name) \in others
       \/ \E l \in KeptAt(es) : l > k /\ Stripped(es[l].name) = Stripped(es[k].name)
       \/ MapGet(m, Stripped(es[k].name)) = Str(Stripped(es[k].value.s))

\* cleaning h gives the kept entries of h, and cleaning the result again
\* gives the same object
CleansOnce(h) ==
  /\ HoldsKept(cleanHeaders(h), ObjectEntries(h), {})
  /\ cleanHeaders(Map(cleanHeaders(h))) = cleanHeaders(h)

\* C18: header cleaning keeps exactly the entries whose key and value are
\* strings that are non-empty after trimming and whose trimmed key is not
\* reserved, under the trimmed key with the trimmed value, for the headers
\* of the constructor (seen in the headers of the client) and for the
\* per-call headers (seen in the request) alike; cleaning a cleaned
\* mapping returns the same mapping.
C18_HeaderCleaning ==
  /\ client.constructed =>
       /\ HoldsKept(client.apiHeaders, CtorHeaders, {HdrClient, HdrContentType, HdrAccept})
       /\ (ctor.options.t = "options" /\ "headers" \in DOMAIN ctor.options.f)
            => CleansOnce(ctor.options.f.headers)
  /\ \A i \in Slots :
       /\ calls[i].request.sent =>
            HoldsKept(calls[i].request.headers, CallHeaders(calls[i]),
                      MapNames(client.apiHeaders) \cup {HdrPublishableKey})
       /\ "headers" \in DOMAIN calls[i].opts => CleansOnce(calls[i].opts.headers)

\* a request went out for per-call headers of which one entry was dropped
\* and one was kept under a name and with a value that trimming changed
C18_Witness ==
  \E i \in Slots :
    /\ calls[i].request.sent
    /\ \E k \in 1..Len(CallHeaders(calls[i])) : ~KeptEntry(CallHeaders(calls[i])[k])
    /\ \E k \in KeptAt(CallHeaders(calls[i])) :
         LET e == CallHeaders(calls[i])[k]
         IN /\ Stripped(e.name) # e.name
            /\ Stripped(e.value.s) # e.value.s
            /\ MapGet(calls[i].request.headers, Stripped(e.name)) = Str(Stripped(e.value.s))

\* a client was constructed from headers that trimming changed
PaddedConstructorHeaderKept ==
  /\ client.constructed
  /\ \E k \in KeptAt(CtorHeaders) :
       /\ Stripped(CtorHeaders[k].name) # CtorHeaders[k].name
       /\ MapGet(client.apiHeaders, Stripped(CtorHeaders[k].name))
            = Str(Stripped(CtorHeaders[k].value.s))

\* what the caller sees of a finished call
Outcome(call) ==
  [stage |-> call.stage, thrown |-> call.thrown, returned |-> call.returned,
   promise |-> call.promise, cbCalls |-> call.cbCalls]

\* an error less the debug member of the options that its data echo
WithoutEchoedDebug(e) ==
  IF /\ "data" \in DOMAIN e
     /\ "t" \in DOMAIN e.data
     /\ e.data.t = "options"
     /\ "debug" \in DOMAIN e.data.f
  THEN [e EXCEPT !.data =
          Opts([key \in DOMAIN e.data.f \ {"debug"} |-> e.data.f[key]])]
  ELSE e

\* the outcome with the echoed debug member left out of its errors
OutcomeLessDebug(call) ==
  [stage |-> call.stage,
   thrown |-> WithoutEchoedDebug(call.thrown),
   returned |-> call.returned,
   promise |-> IF call.promise.state = "rejected"
               THEN Rejected(WithoutEchoedDebug(call.promise.value))
               ELSE call.promise,
   cbCalls |-> [k \in 1..Len(call.cbCalls) |->
                  IF call.cbCalls[k].err = Null THEN call.cbCalls[k]
                  ELSE Failure(WithoutEchoedDebug(call.cbCalls[k].err))]]

\* the two clients differ in the debug flag and the two calls are finished,
\* with the same arguments, callback, host and transport behaviour
TwinRuns ==
  /\ focus = "twin"
  /\ Finished(calls[1]) /\ Finished(calls[2])
  /\ SameRun(calls[1], calls[2])
  /\ calls[1].done = calls[2].done

\* C19: two clients that differ only in the debug flag, given the same call
\* and the same transport behaviour, hand the same request to the transport
\* and deliver the same outcome: the same resolved value, or an error with
\* the same message and data.
C19_DebugChangesNothing ==
  TwinRuns =>
    /\ calls[1].request = calls[2].request
    /\ calls[1].timerMs = calls[2].timerMs
    /\ Outcome(calls[1]) = Outcome(calls[2])

\* what holds: the same request, the same deadline, and the same outcome
\* but for the debug member of the options that a validation error echoes
DebugChangesEchoedFlagOnly ==
  TwinRuns =>
    /\ calls[1].request = calls[2].request
    /\ calls[1].timerMs = calls[2].timerMs
    /\ OutcomeLessDebug(calls[1]) = OutcomeLessDebug(calls[2])

\* twin runs that went through the transport, and twin runs that failed
\* per-call validation
TwinRunsDispatched ==
  TwinRuns /\ calls[1].request.sent /\ calls[1].promise.state = "fulfilled"

TwinRunsRefused ==
  TwinRuns /\ ~calls[1].request.sent /\ calls[1].promise.state = "rejected"

\* the call went through #request and failed its validation of the options
\* or of the body: nothing was handed to the transport
RefusedByRequest(call) ==
  /\ Returned(call)
  /\ call.fetchCalls = 0
  /\ ~call.request.sent

\* C20: the deadline timer of a call is armed only once the transport call
\* has been dispatched: no timer is armed for a call that fails per-call
\* validation, and a call that has a timer has been handed to the transport.
C20_TimerArmedAfterDispatch ==
  \A i \in Slots :
    /\ RefusedByRequest(calls[i]) =>
         calls[i].timer = "none" /\ calls[i].timerMs = Undefined
    /\ calls[i].timer # "none" => calls[i].fetchCalls > 0

\* what holds: the timer is armed on entry to #request wherever
\* AbortController exists, whether or not the call is then dispatched, and
\* it is cleared once the call is over
TimerArmedOnEntry ==
  \A i \in Slots :
    /\ Returned(calls[i]) => (calls[i].timer # "none" <=> calls[i].hasController)
    /\ calls[i].stage = "threw" => calls[i].timer = "none"
    /\ RefusedByRequest(calls[i]) /\ Over(calls[i]) /\ calls[i].hasController =>
         calls[i].timer \in {"cleared", "fired"}

\* a refused call for which a timer was armed
TimerArmedForRefusedCall ==
  \E i \in Slots : RefusedByRequest(calls[i]) /\ calls[i].timer # "none"

\* a number within the bounds of a timeout
WithinTimeoutBounds(v) == v.t = "number" /\ v.n >= 1000 /\ v.n <= 30000

\* the timeout the constructor was given: undefined when the key is absent
GivenTimeout ==
  IF ctor.options.t = "options" /\ "timeout" \in DOMAIN ctor.options.f
  THEN ctor.options.f.timeout
  ELSE Undefined

\* the key timeout is absent from the options the constructor was given
TimeoutKeyAbsent ==
  ~(ctor.options.t = "options" /\ "timeout" \in DOMAIN ctor.options.f)

\* C21: every constructed client has a default timeout that is a number
\* within [1000, 30000], 5000 when the caller set none, whatever options
\* were supplied; so the timer of a call without a per-call timeout is
\* armed for a delay within [1000, 30000].
C21_DefaultTimeoutInRange ==
  client.constructed =>
    /\ WithinTimeoutBounds(client.apiTimeout)
    /\ GivenTimeout = Undefined => client.apiTimeout = Num(5000)
    /\ \A i \in Slots :
         ( /\ calls[i].timer # "none"
           /\ "timeout" \notin DOMAIN calls[i].opts )
         => WithinTimeoutBounds(calls[i].timerMs)

\* what holds: the default timeout is within the bounds when a number other
\* than NaN was given, 5000 when the key was absent, and the value given
\* when that value is undefined or NaN
DefaultTimeoutAsGiven ==
  client.constructed =>
    /\ TimeoutKeyAbsent => client.apiTimeout = Num(5000)
    /\ ~TimeoutKeyAbsent => client.apiTimeout = GivenTimeout
    /\ GivenTimeout.t = "number" => WithinTimeoutBounds(client.apiTimeout)
    /\ GivenTimeout.t \in {"undefined", "nan", "number"}

\* a timer armed for a default timeout that is no number within the bounds
TimerWithoutDeadline ==
  \E i \in Slots :
    /\ calls[i].timer # "none"
    /\ "timeout" \notin DOMAIN calls[i].opts
    /\ calls[i].timerMs \in {Undefined, NaN}

\* the query mapping of a call, or <<>> when the call has none
QueryEntries(call) ==
  IF "query" \in DOMAIN call.opts /\ call.opts.query.t = "map"
  THEN call.opts.query.m
  ELSE <<>>

\* the query strings of the mappings tried, written out
WrittenQuery(es) ==
  IF es = <<Entry(<<"foo">>, Str(<<"bar">>)), Entry(<<"baz">>, Str(<<"qux">>))>>
  THEN <<"foo", "=", "bar", "&", "baz", "=", "qux">>
  ELSE IF es = <<Entry(<<"a", " ", "b">>, Str(<<"c", "&", "d">>)), Entry(<<"n">>, Num(10)),
                 Entry(<<"t">>, Bool(TRUE))>>
  THEN <<"a", "+", "b", "=", "c", "%26", "d", "&", "n", "=", "1", "0", "&",
         "t", "=", "true">>
  ELSE <<>>

\* the URL of every request is the base URL and the path of the operation,
\* followed by what Suffix gives for the query mapping of the call
UrlEndsWith(Suffix(_)) ==
  \A i \in Slots :
    calls[i].request.sent =>
      calls[i].request.url =
        client.apiBaseUrl.s \o OperationPath(calls[i]) \o Suffix(QueryEntries(calls[i]))

QueryIfNonEmpty(es) == IF es = <<>> THEN <<>> ELSE <<"?">> \o WrittenQuery(es)

\* C22: the query string is appended to the URL only if it is non-empty:
\* with no query option or an empty mapping the URL is the base URL and the
\* path with no trailing "?", and with a non-empty mapping it is followed
\* by "?" and the encoded k=v pairs joined by "&".
C22_QueryOnlyIfNonEmpty == UrlEndsWith(QueryIfNonEmpty)

\* a query mapping was given to the call, empty or not
QueryMappingGiven(call) ==
  "query" \in DOMAIN call.opts /\ call.opts.query.t = "map"

\* what holds: "?" follows the path whenever a mapping was given, an empty
\* one included
QueryMarkWheneverGiven ==
  \A i \in Slots :
    calls[i].request.sent =>
      calls[i].request.url =
        client.apiBaseUrl.s \o OperationPath(calls[i])
          \o (IF QueryMappingGiven(calls[i])
              THEN <<"?">> \o WrittenQuery(QueryEntries(calls[i]))
              ELSE <<>>)

\* a request for a call with a mapping that needs encoding
EncodedQuerySent ==
  \E i \in Slots :
    /\ calls[i].request.sent
    /\ Len(QueryEntries(calls[i])) = 3

\* C23: in callback mode the callback is invoked at most once per call, and
\* exactly once when the pipeline has completed, even when the callback
\* itself throws: never as (null, result) and as (error) for one call.
C23_CallbackAtMostOnce ==
  \A i \in Slots :
    /\ Len(calls[i].cbCalls) <= 1
    /\ calls[i].done = "none" => calls[i].cbCalls = <<>>
    /\ calls[i].done # "none" /\ Over(calls[i]) => Len(calls[i].cbCalls) = 1

\* what holds: a callback that returns is invoked exactly once by the time
\* the pipeline has completed; one that throws is invoked at most twice,
\* and twice only as (null, result) followed by (its own error)
CallbackOnceUnlessItThrows ==
  \A i \in Slots :
    /\ calls[i].done = "none" => calls[i].cbCalls = <<>>
    /\ calls[i].done = "returns" =>
         /\ Len(calls[i].cbCalls) <= 1
         /\ Over(calls[i]) => Len(calls[i].cbCalls) = 1
    /\ calls[i].done = "throws" =>
         /\ Len(calls[i].cbCalls) <= 2
         /\ Over(calls[i]) => Len(calls[i].cbCalls) >= 1
         /\ Len(calls[i].cbCalls) = 2 =>
              /\ calls[i].cbCalls[1].err = Null
              /\ calls[i].cbCalls[2] = Failure(RawError("Error", "callback threw"))

\* a callback invoked twice for one call
CallbackInvokedTwice ==
  \E i \in Slots : Over(calls[i]) /\ Len(calls[i].cbCalls) = 2

\* C24: in callback mode a failure is delivered through the callback only:
\* once the pipeline of a call that was given a callback has completed, the
\* promise built by the call, which the caller never receives, is not
\* rejected.
C24_NoRejectionLeftInCallbackMode ==
  \A i \in Slots :
    calls[i].done # "none" /\ Over(calls[i]) =>
      /\ calls[i].returned = "undefined"
      /\ calls[i].promise.state # "rejected"

\* what holds: in callback mode the promise built by the call is rejected
\* exactly when the call failed or the callback threw
RejectionLeftWheneverFailed ==
  \A i \in Slots :
    calls[i].done # "none" /\ Over(calls[i]) =>
      /\ calls[i].returned = "undefined"
      /\ calls[i].promise.state = "rejected" <=>
           \/ calls[i].inner.state = "rejected"
           \/ calls[i].done = "throws"

\* a failed call whose callback returned normally, with a rejected promise
RejectionLeftAfterCallback ==
  \E i \in Slots :
    /\ calls[i].done = "returns" /\ Over(calls[i])
    /\ calls[i].cbCalls = <<Failure(calls[i].inner.value)>>
    /\ calls[i].promise = calls[i].inner
    /\ calls[i].promise.state = "rejected"

\* nothing happens to the timer or to the signal of a completed call
QuietAfterCompletion ==
  \A i \in Slots :
    Over(calls[i]) =>
      /\ calls'[i].timer = calls[i].timer
      /\ calls'[i].aborted = calls[i].aborted

\* C25: once the pipeline of a call has completed, on any path, the timer
\* that the call armed is no longer pending (it was cleared, or it had
\* expired before), and the signal of the call is never aborted after the
\* completion.
C25_TimerClearedOnCompletion ==
  /\ [](\A i \in Slots :
          Over(calls[i]) =>
            /\ calls[i].timer # "armed"
            /\ calls[i].hasController => calls[i].timer \in {"cleared", "fired"}
            /\ ~calls[i].hasController => calls[i].timer = "none")
  /\ [][QuietAfterCompletion]_vars

\* a call completed by a failure to read the body, its timer cleared
C25_Witness ==
  \E i \in Slots :
    /\ Over(calls[i])
    /\ calls[i].readErr # NoError
    /\ calls[i].timer = "cleared"
    /\ ~calls[i].aborted

\* calls completed with the timer cleared: refused by the validation, and
\* answered with success
ClearedAfterRefusal ==
  \E i \in Slots : Over(calls[i]) /\ RefusedByRequest(calls[i]) /\ calls[i].timer = "cleared"

ClearedAfterSuccess ==
  \E i \in Slots :
    Over(calls[i]) /\ calls[i].inner.state = "fulfilled" /\ calls[i].timer = "cleared"

\* a call completed after its deadline had passed
CompletedAfterExpiry ==
  \E i \in Slots : Over(calls[i]) /\ calls[i].timer = "fired" /\ calls[i].aborted

\* a step of one call leaves every other call as it was
OneCallPerStep ==
  \A i, j \in Slots :
    i # j /\ calls'[i] # calls[i] => calls'[j] = calls[j]

\* C26: several calls on one client may be outstanding at once, each with
\* its own controller and timer: under every interleaving, a step of one
\* call (the answer of its transport, the expiry of its timer, its abort,
\* its completion) never aborts another call, never clears the timer of
\* another call and never changes what another call delivers; a call is
\* aborted only once its own timer has expired, and two finished calls with
\* the same arguments and transport behaviour have the same outcome
\* whatever happened to the other in between.
C26_CallsIndependent ==
  /\ [](\A i \in Slots :
          /\ calls[i].aborted => calls[i].timer = "fired"
          /\ \A j \in Slots :
               ( /\ Finished(calls[i]) /\ Finished(calls[j])
                 /\ SameRun(calls[i], calls[j])
                 /\ calls[i].done = calls[j].done )
               => /\ Outcome(calls[i]) = Outcome(calls[j])
                  /\ calls[i].request = calls[j].request)
  /\ [][OneCallPerStep]_vars

\* two calls were outstanding at once; the deadline of the first passed and
\* it failed by the abort, the second was answered and resolved, its timer
\* cleared and its signal never aborted
C26_Witness ==
  \E i, j \in Slots :
    /\ i # j
    /\ Over(calls[i]) /\ calls[i].timer = "fired" /\ calls[i].aborted
    /\ calls[i].inner.state = "rejected"
    /\ Over(calls[j]) /\ calls[j].timer = "cleared" /\ ~calls[j].aborted
    /\ calls[j].request.sent
    /\ calls[j].inner.state = "fulfilled"

\* two calls outstanding at once, the timer of one expired
OutstandingTogether ==
  \E i, j \in Slots :
    /\ i # j
    /\ calls[i].stage = "wait" /\ calls[i].timer = "fired"
    /\ calls[j].stage = "wait" /\ calls[j].timer = "armed"

\* the per-call options pass the validation of #request: a timeout that is
\* given is within [1000, 30000] or is NaN, which no comparison refuses,
\* and a query that is given is a mapping
PassValidation(opts) ==
  /\ "timeout" \in DOMAIN opts =>
       \/ opts.timeout.t \in {"undefined", "nan"}
       \/ WithinTimeoutBounds(opts.timeout)
  /\ "query" \in DOMAIN opts => opts.query.t \in {"undefined", "map"}

\* the call passes every validation and its body can be serialised
PassesAll(call) ==
  /\ ValidArgument(call)
  /\ PassValidation(call.opts)
  /\ JSONStringify(call.arg).ok

NoTransportCallWhenRefused ==
  \E i \in Slots : Over(calls[i]) /\ ~PassesAll(calls[i]) /\ calls[i].fetchCalls = 0

\* the reading of the body of the response failed
ReadFailed(call) == call.response.received /\ call.read = "failed"

\* C28: when reading the text of the response fails, the call fails with a
\* MeshesApiError and never resolves: for an ok response the message is
\* "Error parsing response data" and the data is the error of the read;
\* for a response that is not ok the data is {status, statusText, error}
\* with the status and statusText of the response and the error of the
\* read.
C28_ReadFailure ==
  \A i \in Slots :
    ReadFailed(calls[i]) =>
      /\ calls[i].readErr # NoError
      /\ calls[i].inner.state = "rejected"
      /\ calls[i].inner.value.name = "MeshesApiError"
      /\ Delivers(calls[i], calls[i].inner)
      /\ calls[i].promise.state # "fulfilled"
      /\ \A k \in 1..Len(calls[i].cbCalls) : calls[i].cbCalls[k].err # Null
      /\ calls[i].response.ok =>
           /\ calls[i].inner.value.message = "Error parsing response data"
           /\ calls[i].inner.value.data = calls[i].readErr
      /\ ~calls[i].response.ok =>
           calls[i].inner.value.data =
             [status |-> calls[i].response.status,
              statusText |-> calls[i].response.statusText,
              error |-> calls[i].readErr]

\* a promise rejected after the body of a 401 answer could not be read
C28_Witness ==
  \E i \in Slots :
    /\ ReadFailed(calls[i]) /\ Over(calls[i])
    /\ calls[i].done = "none"
    /\ calls[i].response.status = 401
    /\ calls[i].promise.state = "rejected"
    /\ calls[i].promise.value.data =
         [status |-> 401, statusText |-> "Unauthorized", error |-> Boom]

\* a callback told of the failure to read the body of an ok answer
ReadFailureOfOkAnswer ==
  \E i \in Slots :
    /\ ReadFailed(calls[i]) /\ Over(calls[i])
    /\ calls[i].response.ok
    /\ calls[i].cbCalls =
         <<Failure([name |-> "MeshesApiError", message |-> "Error parsing response data",
                    data |-> Boom])>>

\* a constructed client stays as it is, and so does the delay of the timer
\* of a call that has returned
ConfigurationKept ==
  /\ client.constructed => client' = client
  /\ \A i \in Slots : Returned(calls[i]) => calls'[i].timerMs = calls[i].timerMs

\* C29: the timer of a call runs for the per-call timeout when one is
\* given and for the default timeout of the client otherwise; a per-call
\* timeout applies to its call only: it leaves the default timeout of the
\* client and the deadline of every other call unchanged.
C29_PerCallTimeoutIsLocal ==
  /\ [](\A i \in Slots :
          Returned(calls[i]) /\ calls[i].hasController =>
            /\ ( /\ "timeout" \in DOMAIN calls[i].opts
                 /\ WithinTimeoutBounds(calls[i].opts.timeout) )
               => calls[i].timerMs = calls[i].opts.timeout
            /\ ( \/ "timeout" \notin DOMAIN calls[i].opts
                 \/ calls[i].opts.timeout = Undefined )
               => /\ calls[i].timerMs = client.apiTimeout
                  /\ TimeoutKeyAbsent => calls[i].timerMs = Num(5000))
  /\ [][ConfigurationKept]_vars

\* two calls on a client with the default of 5000 ms: one with a timeout of
\* its own, completed, and one without, whose timer runs for the default
C29_Witness ==
  \E i, j \in Slots :
    /\ i # j
    /\ client.constructed
    /\ client.apiTimeout = Num(5000)
    /\ Over(calls[i])
    /\ calls[i].opts = [timeout |-> Num(2000)]
    /\ calls[i].timerMs = Num(2000)
    /\ Returned(calls[j])
    /\ "timeout" \notin DOMAIN calls[j].opts
    /\ calls[j].timer = "armed"
    /\ calls[j].timerMs = Num(5000)

\* the client as the constructor built it from the arguments it was given
ClientAsConstructed == Constructor(ctor.key, ctor.options).client

\* the request and the deadline a call would have with the client as it
\* was constructed
RequestAsConstructed(call) ==
  FetchArguments(ClientAsConstructed,
                 MergedOptions(ClientAsConstructed, call.opts,
                               OperationPath(call), call.arg),
                 call.hasController)

DeadlineAsConstructed(call) ==
  IF "timeout" \in DOMAIN call.opts /\ call.opts.timeout.t = "number"
  THEN call.opts.timeout
  ELSE ClientAsConstructed.apiTimeout

\* C30: the configuration of the client is fixed at construction: changes
\* made afterwards to the options object or to the headers object that was
\* passed to the constructor have no effect on the headers, the URL or the
\* timeout of a later request.
C30_ConfigurationFixed ==
  \A i \in Slots :
    /\ calls[i].request.sent =>
         /\ calls[i].request.headers = RequestAsConstructed(calls[i]).headers
         /\ calls[i].request.url = RequestAsConstructed(calls[i]).url
    /\ Returned(calls[i]) /\ calls[i].hasController =>
         calls[i].timerMs = DeadlineAsConstructed(calls[i])

\* what holds: the URL and the timeout are those of the construction, and
\* so is every header the request would have had; what the request of a
\* call without headers of its own carries beyond that are entries added
\* in place to the headers object that #options refers to
ConfigurationFixedButSharedHeaders ==
  \A i \in Slots :
    /\ calls[i].request.sent =>
         /\ calls[i].request.url = RequestAsConstructed(calls[i]).url
         /\ calls[i].request.method = RequestAsConstructed(calls[i]).method
         /\ calls[i].request.body = RequestAsConstructed(calls[i]).body
         /\ \A k \in 1..Len(RequestAsConstructed(calls[i]).headers) :
              LET h == RequestAsConstructed(calls[i]).headers[k]
              IN MapGet(calls[i].request.headers, h.name) = h.value
         /\ (client = ClientAsConstructed \/ "headers" \in DOMAIN calls[i].opts) =>
              calls[i].request.headers = RequestAsConstructed(calls[i]).headers
         /\ \A n \in MapNames(calls[i].request.headers) :
              \/ MapHas(RequestAsConstructed(calls[i]).headers, n)
              \/ MapHas(client.options.headers.m, n)
    /\ Returned(calls[i]) /\ calls[i].hasController =>
         calls[i].timerMs = DeadlineAsConstructed(calls[i])

\* a request sent after the caller had changed the options object
SentAfterOptionsChanged ==
  \E i \in Slots :
    /\ calls[i].request.sent
    /\ ctor.edits > 0
    /\ Get(ctor.live.f, "timeout") # Get(ctor.options.f, "timeout")

\* a request that carries a header added after the construction
SentWithLaterHeader ==
  \E i \in Slots :
    /\ calls[i].request.sent
    /\ MapGet(calls[i].request.headers, NameNew) = Str(<<"n1">>)

====
